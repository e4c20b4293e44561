------------------------------ MODULE PrimeMods ------------------------------
(***************************************************************************)
(* The mods of PrimeHack (Core/PrimeHack/HackManager.cpp and PrimeMod.cpp) *)
(* patch instructions of the running game.  Once a frame the CPU thread    *)
(* looks which game is in memory, initialises the mods for it, and writes  *)
(* each mod's changes, or the instructions they replaced.  The host takes  *)
(* all patches out before it makes a savestate (Core/State.cpp).           *)
(*                                                                         *)
(* Each mod patches words of its own, as the mods' tables do.  A word      *)
(* holds the game whose instruction it is, or the mod that patched it.     *)
(* run_active_mods() is one step, and so is each call of the host's: what  *)
(* can come in between is a whole frame.                                   *)
(***************************************************************************)
EXTENDS Integers, Sequences

CONSTANTS
  Games,            \* the games that the signature tells apart
  INVALID_GAME,     \* anything else in memory
  Mods,
  AlwaysOn,         \* mods that are enabled once, by InitializeHack()
  Controlled,       \* mods whose code is to be out while the player has no control
  Words,            \* the words of memory that a mod patches
  Layout,           \* [Mods -> [Games -> Seq(Entry)]]: init_mod()'s code changes
  Savers,           \* host threads that make savestates
  Junk,             \* what lies beyond the end of a vector
  NoState

Entry == [address : Words, grouped : BOOLEAN]

VARIABLES
  game,               \* the game whose code is in memory
  mem,                \* the words that the mods patch
  mod,                \* the PrimeMod objects
  last_game,
  mod_state_backup,
  config,             \* what the user has enabled: mods, and groups of code changes
  paused,             \* the user has paused the emulation
  saver,              \* where each host thread is in SaveAs()
  saved,              \* the savestate on disk, or NoState
  disturbed           \* ghost: a frame was run between reverting and writing, or the
                      \* mods were reverted in a game that they had not seen yet

host == <<mod_state_backup, saver>>
vars == <<game, mem, mod, last_game, host, config, paused, saved, disturbed>>

AllGames == Games \cup {INVALID_GAME}
Memory == [Mods -> [Words -> AllGames \cup Mods]]
ModState == {"DISABLED", "CODE_DISABLED", "ENABLED"}
CodeChange == [address : Words, var : AllGames \cup Mods]

ASSUME ModsAssumption ==
  /\ INVALID_GAME \notin Games
  /\ Mods \cap (Games \cup {INVALID_GAME}) = {}
  /\ AlwaysOn \cup Controlled \subseteq Mods
  /\ AlwaysOn \cap Controlled = {}
  /\ Layout \in [Mods -> [Games -> Seq(Entry)]]
  /\ \A m \in Mods, g \in Games : \A i, j \in 1..Len(Layout[m][g]) :
       Layout[m][g][i].address = Layout[m][g][j].address => i = j
  /\ Junk \subseteq CodeChange

(* code_changes holds addresses only: each becomes an instruction of the    *)
(* mod.  code_groups has at most one group, the indices of its changes.     *)
PrimeMod ==
  [initialized : BOOLEAN, state : ModState,
   code_changes : Seq(Words), original_instructions : Seq(CodeChange),
   pending_change_backups : Seq(Words), current_active_changes : Seq(CodeChange),
   group : SUBSET Nat, group_state : ModState]

TypeOK ==
  /\ game \in AllGames
  /\ mem \in Memory
  /\ mod \in [Mods -> PrimeMod]
  /\ last_game \in AllGames
  /\ mod_state_backup \in [Mods -> ModState]
  /\ config \in [mods : SUBSET Mods, groups : SUBSET Mods]
  /\ paused \in BOOLEAN
  /\ saver \in [Savers -> {"idle", "revert", "write", "restore"}]
  /\ saved \in [game : AllGames, mem : Memory] \cup {NoState}
  /\ disturbed \in BOOLEAN

\* The code of a game that was just loaded.
Own(g) == [m \in Mods |-> [w \in Words |-> g]]

Init ==
  /\ game = INVALID_GAME
  /\ mem = Own(INVALID_GAME)
  /\ mod = [m \in Mods |->
       [initialized |-> FALSE, state |-> IF m \in AlwaysOn THEN "ENABLED" ELSE "DISABLED",
        code_changes |-> << >>, original_instructions |-> << >>,
        pending_change_backups |-> << >>, current_active_changes |-> << >>,
        group |-> {}, group_state |-> "ENABLED"]]
  /\ last_game = INVALID_GAME
  /\ mod_state_backup = [m \in Mods |-> "DISABLED"]
  /\ config \in [mods : SUBSET (Mods \ AlwaysOn), groups : SUBSET Mods]
  /\ paused = FALSE
  /\ saver = [s \in Savers |-> "idle"]
  /\ saved = NoState
  /\ disturbed = FALSE

-----------------------------------------------------------------------------
(* PrimeMod.  r is a mod, words its words of memory.                        *)

get_changes_to_apply(r) ==
  IF r.state \in {"DISABLED", "CODE_DISABLED"}
  THEN r.original_instructions ELSE r.current_active_changes

should_apply_changes(r, words) ==
  LET c == get_changes_to_apply(r)
  IN  \E i \in DOMAIN c : words[c[i].address] # c[i].var

\* Of two changes to one word the later one is there in the end.
apply_instruction_changes(r, words) ==
  LET c == get_changes_to_apply(r)
      At(w) == {i \in DOMAIN c : c[i].address = w}
  IN  [w \in Words |-> IF At(w) = {} THEN words[w]
                       ELSE c[CHOOSE i \in At(w) : \A j \in At(w) : j <= i].var]

update_original_instructions(r, words) ==
  [r EXCEPT !.original_instructions = @ \o
     [i \in DOMAIN r.pending_change_backups |->
        [address |-> r.pending_change_backups[i],
         var |-> words[r.pending_change_backups[i]]]],
            !.pending_change_backups = << >>]

\* code_groups stays as it is.
reset_mod(r) ==
  [r EXCEPT !.code_changes = << >>, !.original_instructions = << >>,
            !.pending_change_backups = << >>, !.current_active_changes = << >>,
            !.initialized = FALSE]

\* init_mod() and its calls of add_code_change().
init_mod(m, r, entries) ==
  LET addresses == [i \in DOMAIN entries |-> entries[i].address]
      indices == {i \in DOMAIN entries : entries[i].grouped}
  IN  [r EXCEPT
         !.code_changes = @ \o addresses,
         !.pending_change_backups = @ \o addresses,
         !.current_active_changes = @ \o
            [i \in DOMAIN entries |-> [address |-> entries[i].address, var |-> m]],
         !.group = @ \cup {Len(r.code_changes) + i : i \in indices},
         !.group_state = IF indices = {} THEN @ ELSE "ENABLED",
         !.initialized = TRUE]

\* Variant: all changes are switched with the group.
set_code_group_state_All(m, r, new_state, junk) ==
  IF r.group = {} \/ r.group_state = new_state THEN r
  ELSE [r EXCEPT
          !.group_state = new_state,
          !.current_active_changes =
             IF new_state = "ENABLED"
             THEN [i \in DOMAIN r.code_changes |-> [address |-> r.code_changes[i], var |-> m]]
             ELSE r.original_instructions]

(* Nothing checks the indices.  Beyond the end of original_instructions lies *)
(* junk; beyond the end of the other vectors, memory they once used.        *)
set_code_group_state(m, r, new_state, junk) ==
  LET from(i) == CASE new_state = "ENABLED" -> [address |-> r.code_changes[i], var |-> m]
                   [] new_state # "ENABLED" /\ i \in DOMAIN r.original_instructions ->
                        r.original_instructions[i]
                   [] OTHER -> junk
  IN  IF r.group = {} \/ r.group_state = new_state THEN r
      ELSE [r EXCEPT
              !.group_state = new_state,
              !.current_active_changes = [i \in DOMAIN r.current_active_changes |->
                 IF i \in r.group THEN from(i) ELSE r.current_active_changes[i]]]

-----------------------------------------------------------------------------
(* HackManager::run_active_mods(), each frame.                              *)
update_mod_states(m, r) ==
  IF m \in AlwaysOn THEN r
  ELSE [r EXCEPT !.state = IF m \in config.mods THEN "ENABLED" ELSE "DISABLED"]

ResetAndUpdate(m) ==
  update_mod_states(m, IF game # last_game THEN reset_mod(mod[m]) ELSE mod[m])

\* Variant: the originals are not recorded before the patch.
InitAndApply_NoBackup(m, r) ==
  LET ready == IF r.initialized THEN r ELSE init_mod(m, r, Layout[m][game])
  IN  IF should_apply_changes(ready, mem[m])
      THEN [r |-> ready, words |-> apply_instruction_changes(ready, mem[m])]
      ELSE [r |-> ready, words |-> mem[m]]

InitAndApply(m, r) ==
  LET ready == IF r.initialized THEN r ELSE init_mod(m, r, Layout[m][game])
      backedUp == update_original_instructions(ready, mem[m])
  IN  IF should_apply_changes(ready, mem[m])
      THEN [r |-> backedUp, words |-> apply_instruction_changes(backedUp, mem[m])]
      ELSE [r |-> ready, words |-> mem[m]]

(* run_mod(), as far as it changes code: it switches its group as the user  *)
(* wants, and a controlled mod takes its code out while there is no control.*)
RunMod(m, applied, control, junk) ==
  LET wanted == IF m \in config.groups THEN "ENABLED" ELSE "DISABLED"
      switched == set_code_group_state(m, applied.r, wanted, junk)
      out == [switched EXCEPT !.state = "CODE_DISABLED"]
  IN  CASE applied.r.state = "DISABLED" -> applied
        [] applied.r.state # "DISABLED" /\ m \in Controlled /\ ~ control ->
             [r |-> out, words |-> apply_instruction_changes(out, applied.words)]
        [] OTHER -> [r |-> switched, words |-> applied.words]

Frame(control, junk) ==
  LET Done(m) == RunMod(m, InitAndApply(m, ResetAndUpdate(m)), control, junk)
  IN  /\ ~ paused
      /\ IF game = INVALID_GAME
         THEN /\ mod' = [m \in Mods |-> ResetAndUpdate(m)]
              /\ UNCHANGED <<mem, last_game>>
         ELSE /\ mod' = [m \in Mods |-> Done(m).r]
              /\ mem' = [m \in Mods |-> Done(m).words]
              /\ last_game' = game
      /\ disturbed' = (disturbed \/ \E s \in Savers : saver[s] = "write")
      /\ UNCHANGED <<game, host, config, paused, saved>>

-----------------------------------------------------------------------------
\* The guest loads the code of a game, or of something else.
LoadGame(g) ==
  /\ ~ paused
  /\ game' = g
  /\ mem' = Own(g)
  /\ UNCHANGED <<mod, last_game, host, config, paused, saved, disturbed>>

Configure ==
  /\ \E m \in Mods \ AlwaysOn, on \in BOOLEAN :
       config' = [config EXCEPT !.mods = IF on THEN @ \cup {m} ELSE @ \ {m}]
  /\ UNCHANGED <<game, mem, mod, last_game, host, paused, saved, disturbed>>

ConfigureGroup ==
  /\ \E m \in Mods, on \in BOOLEAN :
       config' = [config EXCEPT !.groups = IF on THEN @ \cup {m} ELSE @ \ {m}]
  /\ UNCHANGED <<game, mem, mod, last_game, host, paused, saved, disturbed>>

Idle == \A s \in Savers : saver[s] = "idle"

SetPaused ==
  /\ paused' = ~ paused
  /\ UNCHANGED <<game, mem, mod, last_game, host, config, saved, disturbed>>

\* HackManager::shutdown(), when the emulation has ended.
Shutdown ==
  /\ Idle
  /\ game' = INVALID_GAME
  /\ mem' = Own(INVALID_GAME)
  /\ mod' = [m \in Mods |-> reset_mod(mod[m])]
  /\ last_game' = INVALID_GAME
  /\ paused' = FALSE
  /\ UNCHANGED <<host, config, saved, disturbed>>

-----------------------------------------------------------------------------
(* State::SaveAs() on a host thread.                                        *)
Move(s, from, to) ==
  /\ saver[s] = from
  /\ saver' = [saver EXCEPT ![s] = to]

SeenByMods == \A m \in Mods : mod[m].initialized => last_game = game

\* Variant: only what runs is saved.
save_mod_states_Running(s) ==
  /\ Move(s, "idle", "revert")
  /\ mod_state_backup' = [m \in Mods |-> IF mod[m].initialized THEN mod[m].state ELSE "none"]
  /\ UNCHANGED <<game, mem, mod, last_game, config, paused, saved, disturbed>>

save_mod_states(s) ==
  /\ Move(s, "idle", "revert")
  /\ mod_state_backup' = [m \in Mods |-> mod[m].state]
  /\ UNCHANGED <<game, mem, mod, last_game, config, paused, saved, disturbed>>

\* Variant: the mods are disabled, and the next frame is to do the rest.
revert_all_code_changes_Later(s) ==
  /\ Move(s, "revert", "write")
  /\ mod' = [m \in Mods |-> IF mod[m].initialized
                            THEN [mod[m] EXCEPT !.state = "DISABLED"] ELSE mod[m]]
  /\ UNCHANGED <<game, mem, last_game, mod_state_backup, config, paused, saved, disturbed>>

revert_all_code_changes(s) ==
  /\ Move(s, "revert", "write")
  /\ mod' = [m \in Mods |-> IF mod[m].initialized
                            THEN [mod[m] EXCEPT !.state = "DISABLED"] ELSE mod[m]]
  /\ mem' = [m \in Mods |-> IF mod[m].initialized
                            THEN apply_instruction_changes(mod'[m], mem[m]) ELSE mem[m]]
  /\ disturbed' = (disturbed \/ ~ SeenByMods)
  /\ UNCHANGED <<game, last_game, mod_state_backup, config, paused, saved>>

\* The memory is written while the CPU thread is locked out.
WriteState(s) ==
  /\ Move(s, "write", "restore")
  /\ saved' = [game |-> game, mem |-> mem]
  /\ UNCHANGED <<game, mem, mod, last_game, mod_state_backup, config, paused,
                 disturbed>>

restore_mod_states(s) ==
  /\ Move(s, "restore", "idle")
  /\ mod' = [m \in Mods |-> IF mod[m].initialized
                            THEN [mod[m] EXCEPT !.state = mod_state_backup[m]] ELSE mod[m]]
  /\ UNCHANGED <<game, mem, last_game, mod_state_backup, config, paused, saved, disturbed>>

\* State::LoadAs(): memory is replaced, the mods stay as they are.
LoadAs ==
  /\ Idle
  /\ saved # NoState
  /\ game' = saved.game
  /\ mem' = saved.mem
  /\ UNCHANGED <<mod, last_game, host, config, paused, saved, disturbed>>

-----------------------------------------------------------------------------
SaveAs(s) ==
  save_mod_states(s) \/ revert_all_code_changes(s) \/ WriteState(s) \/ restore_mod_states(s)

AnyFrame == \E control \in BOOLEAN, junk \in Junk : Frame(control, junk)

Next ==
  \/ AnyFrame
  \/ \E g \in AllGames : LoadGame(g)
  \/ Configure \/ ConfigureGroup \/ SetPaused \/ Shutdown
  \/ \E s \in Savers : SaveAs(s)
  \/ LoadAs

Spec == Init /\ [][Next]_vars

-----------------------------------------------------------------------------
(* "ENABLED: running, active instruction changes" (PrimeMod.h): after a     *)
(* frame every change of an enabled mod that no group names, of this game   *)
(* or of one that ran before, is in memory.                                 *)
EnabledIsActive ==
  [][~ disturbed /\ AnyFrame /\ game \in Games =>
       \A m \in Mods : mod'[m].state = "ENABLED" =>
         \A i \in DOMAIN Layout[m][game] :
           i \notin mod'[m].group => mem'[m][Layout[m][game][i].address] = m]_vars

(* "DISABLED: not running, no active instruction changes; CODE_DISABLED:    *)
(* running, no active instruction changes" (PrimeMod.h): after a frame the  *)
(* words of such a mod hold the instructions of the game that is running,   *)
(* not the mod's and not another game's.                                    *)
DisabledIsOriginal ==
  [][~ disturbed /\ AnyFrame =>
       \A m \in Mods : mod'[m].state # "ENABLED" => mem'[m] = Own(game)[m]]_vars

(* "Disables all mods and restores original instructions immediately"       *)
(* (HackManager.h), which SaveAs() does before it writes: a savestate holds *)
(* the game's own instructions.                                             *)
SavedIsOriginal == saved # NoState => saved.mem = Own(saved.game)

(* Only a frame between reverting and writing, and reverting in a game that *)
(* the mods had not seen, bring anything else into a savestate; whatever    *)
(* else happens while it is made, and whatever was loaded before, does not. *)
SavedUnlessDisturbed == ~ disturbed => SavedIsOriginal

=============================================================================
