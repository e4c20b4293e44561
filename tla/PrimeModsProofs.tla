--------------------------- MODULE PrimeModsProofs ---------------------------
(***************************************************************************)
(* Proofs about PrimeMods: type correctness; and, for savestates made      *)
(* while the emulation is paused, that a savestate holds no patch, that a  *)
(* disabled mod leaves the game's own code, that an enabled one is in      *)
(* memory, and that a savestate changes no mod.                            *)
(***************************************************************************)
EXTENDS PrimeMods, SequenceTheorems, WellFoundedInduction, TLAPS

-----------------------------------------------------------------------------
(* Types.  A group indexes code_changes and current_active_changes, which   *)
(* are of one length.                                                       *)
Words2Code == [Words -> AllGames \cup Mods]
ModOK(r) == r \in PrimeMod /\ Len(r.code_changes) = Len(r.current_active_changes)
TypeInv == TypeOK /\ \A m \in Mods : ModOK(mod[m])

LEMMA MaxExists ==
  ASSUME NEW n \in Nat, NEW S, S \subseteq 1..n, S # {}
  PROVE  \E i \in S : \A j \in S : j <= i
<1> DEFINE T == {n - i : i \in S}
<1>1. T \subseteq Nat /\ T # {}
  <2>1. \A i \in S : i \in 1..n /\ n - i \in Nat
    OBVIOUS
  <2> QED
    BY <2>1
<1>2. PICK x \in T : \A y \in T : ~ (<<y, x>> \in OpToRel(<, Nat))
  BY <1>1, NatLessThanWellFounded, WFMin
<1>3. \A y \in T : ~ (y < x)
  BY <1>1, <1>2 DEF OpToRel
<1>4. PICK i \in S : x = n - i
  OBVIOUS
<1>5. \A j \in S : ~ (n - j < n - i)
  BY <1>3, <1>4
<1> QED
  BY <1>5

LEMMA FunctionIsSeq ==
  ASSUME NEW S, NEW n \in Nat, NEW f \in [1..n -> S]
  PROVE  f \in Seq(S) /\ Len(f) = n /\ DOMAIN f = 1..n
OBVIOUS

LEMMA ChangesType ==
  ASSUME NEW r \in PrimeMod
  PROVE  get_changes_to_apply(r) \in Seq(CodeChange)
BY DEF PrimeMod, get_changes_to_apply

LEMMA ApplyType ==
  ASSUME NEW r \in PrimeMod, NEW words \in Words2Code
  PROVE  apply_instruction_changes(r, words) \in Words2Code
<1> DEFINE c == get_changes_to_apply(r)
           At(w) == {i \in DOMAIN c : c[i].address = w}
<1>1. c \in Seq(CodeChange)
  BY ChangesType
<1> SUFFICES ASSUME NEW w \in Words, At(w) # {}
             PROVE  c[CHOOSE i \in At(w) : \A j \in At(w) : j <= i].var \in AllGames \cup Mods
  BY DEF apply_instruction_changes, Words2Code
<1>2. At(w) \subseteq 1..Len(c) /\ Len(c) \in Nat
  BY <1>1
<1>3. \E i \in At(w) : \A j \in At(w) : j <= i
  BY <1>2, MaxExists
<1>4. (CHOOSE i \in At(w) : \A j \in At(w) : j <= i) \in DOMAIN c
  BY <1>3
<1>5. \A i \in DOMAIN c : c[i] \in CodeChange
  BY <1>1
<1> HIDE DEF c
<1> QED
  BY <1>4, <1>5 DEF CodeChange

(* A mod with new vectors is a mod.                                         *)
LEMMA VectorsType ==
  ASSUME NEW r \in PrimeMod, NEW a \in Seq(Words), NEW b \in Seq(CodeChange),
         NEW c \in Seq(Words), NEW d \in Seq(CodeChange), NEW i \in BOOLEAN
  PROVE  [r EXCEPT !.code_changes = a, !.original_instructions = b,
                   !.pending_change_backups = c, !.current_active_changes = d,
                   !.initialized = i] \in PrimeMod
BY DEF PrimeMod

LEMMA ResetType ==
  ASSUME NEW r \in PrimeMod
  PROVE  ModOK(reset_mod(r))
<1>1. << >> \in Seq(Words) /\ << >> \in Seq(CodeChange)
  OBVIOUS
<1>2. reset_mod(r) \in PrimeMod
  BY <1>1, VectorsType, Zenon DEF reset_mod
<1>3. reset_mod(r).code_changes = << >> /\ reset_mod(r).current_active_changes = << >>
  BY DEF reset_mod, PrimeMod
<1> QED
  BY <1>2, <1>3 DEF ModOK

LEMMA StateType ==
  ASSUME NEW r, ModOK(r), NEW s \in ModState
  PROVE  ModOK([r EXCEPT !.state = s])
BY DEF ModOK, PrimeMod

LEMMA BackupType ==
  ASSUME NEW r, ModOK(r), NEW words \in Words2Code
  PROVE  ModOK(update_original_instructions(r, words))
<1> DEFINE p == r.pending_change_backups
           new == [i \in DOMAIN p |-> [address |-> p[i], var |-> words[p[i]]]]
<1>1. p \in Seq(Words) /\ r.original_instructions \in Seq(CodeChange)
  BY DEF ModOK, PrimeMod
<1>2. new \in Seq(CodeChange)
  <2>1. \A i \in DOMAIN p : [address |-> p[i], var |-> words[p[i]]] \in CodeChange
    BY <1>1 DEF CodeChange, Words2Code
  <2>2. DOMAIN p = 1..Len(p) /\ Len(p) \in Nat
    BY <1>1
  <2> QED
    BY <2>1, <2>2
<1>3. r.original_instructions \o new \in Seq(CodeChange)
  BY <1>1, <1>2
<1>4. ASSUME NEW o \in Seq(CodeChange), NEW q \in Seq(Words)
      PROVE  ModOK([r EXCEPT !.original_instructions = o, !.pending_change_backups = q])
  BY DEF ModOK, PrimeMod
<1>5. << >> \in Seq(Words)
  OBVIOUS
<1>6. update_original_instructions(r, words)
        = [r EXCEPT !.original_instructions = r.original_instructions \o new,
                    !.pending_change_backups = << >>]
  BY DEF update_original_instructions
<1> HIDE DEF new
<1> QED
  BY <1>3, <1>4, <1>5, <1>6

LEMMA EntriesType ==
  ASSUME NEW m \in Mods, NEW entries \in Seq(Entry)
  PROVE  /\ [i \in DOMAIN entries |-> entries[i].address] \in [1..Len(entries) -> Words]
         /\ [i \in DOMAIN entries |-> [address |-> entries[i].address, var |-> m]]
              \in [1..Len(entries) -> CodeChange]
         /\ DOMAIN entries = 1..Len(entries)
         /\ Len(entries) \in Nat
<1>1. DOMAIN entries = 1..Len(entries) /\ Len(entries) \in Nat
  OBVIOUS
<1>2. \A i \in DOMAIN entries : entries[i].address \in Words
  <2>1. \A i \in DOMAIN entries : entries[i] \in Entry
    OBVIOUS
  <2> QED
    BY <2>1 DEF Entry
<1> QED
  BY <1>1, <1>2 DEF CodeChange

LEMMA InitType ==
  ASSUME NEW m \in Mods, NEW r, ModOK(r), NEW entries \in Seq(Entry)
  PROVE  ModOK(init_mod(m, r, entries))
<1> DEFINE addresses == [i \in DOMAIN entries |-> entries[i].address]
           changes == [i \in DOMAIN entries |-> [address |-> entries[i].address, var |-> m]]
           indices == {i \in DOMAIN entries : entries[i].grouped}
           group == {Len(r.code_changes) + i : i \in indices}
<1>1. DOMAIN entries \subseteq Nat
  BY EntriesType
<1>2. /\ addresses \in Seq(Words) /\ Len(addresses) = Len(entries)
      /\ changes \in Seq(CodeChange) /\ Len(changes) = Len(entries)
  BY EntriesType, FunctionIsSeq
<1>3. /\ r.code_changes \in Seq(Words) /\ r.pending_change_backups \in Seq(Words)
      /\ r.current_active_changes \in Seq(CodeChange)
      /\ Len(r.code_changes) = Len(r.current_active_changes)
      /\ r.group \in SUBSET Nat
  BY DEF ModOK, PrimeMod
<1>4. r.group \cup group \in SUBSET Nat
  BY <1>1, <1>3
<1>5. init_mod(m, r, entries) =
        [r EXCEPT !.code_changes = @ \o addresses,
                  !.pending_change_backups = @ \o addresses,
                  !.current_active_changes = @ \o changes,
                  !.group = @ \cup group,
                  !.group_state = IF indices = {} THEN @ ELSE "ENABLED",
                  !.initialized = TRUE]
  BY DEF init_mod
<1> HIDE DEF addresses, changes, group, indices
<1>6. /\ r.code_changes \o addresses \in Seq(Words)
      /\ r.pending_change_backups \o addresses \in Seq(Words)
      /\ r.current_active_changes \o changes \in Seq(CodeChange)
      /\ Len(r.code_changes \o addresses) = Len(r.current_active_changes \o changes)
  <2>1. ASSUME NEW S, NEW s \in Seq(S), NEW t \in Seq(S)
        PROVE  s \o t \in Seq(S) /\ Len(s \o t) = Len(s) + Len(t)
    BY <2>1, ConcatProperties
  <2>2. /\ r.code_changes \o addresses \in Seq(Words)
        /\ Len(r.code_changes \o addresses) = Len(r.code_changes) + Len(addresses)
    BY <1>2, <1>3, <2>1
  <2>3. r.pending_change_backups \o addresses \in Seq(Words)
    BY <1>2, <1>3, <2>1
  <2>4. /\ r.current_active_changes \o changes \in Seq(CodeChange)
        /\ Len(r.current_active_changes \o changes)
             = Len(r.current_active_changes) + Len(changes)
    BY <1>2, <1>3, <2>1
  <2> QED
    BY <1>2, <1>3, <2>2, <2>3, <2>4
<1> QED
  BY <1>4, <1>5, <1>6 DEF ModOK, PrimeMod, ModState

LEMMA GroupType ==
  ASSUME NEW m \in Mods, NEW r, ModOK(r), NEW s \in ModState, NEW junk \in CodeChange
  PROVE  ModOK(set_code_group_state(m, r, s, junk))
<1> DEFINE a == r.current_active_changes
           from(i) == CASE s = "ENABLED" -> [address |-> r.code_changes[i], var |-> m]
                        [] s # "ENABLED" /\ i \in DOMAIN r.original_instructions ->
                             r.original_instructions[i]
                        [] OTHER -> junk
           new == [i \in DOMAIN a |-> IF i \in r.group THEN from(i) ELSE a[i]]
<1>1. a \in Seq(CodeChange) /\ DOMAIN a = DOMAIN r.code_changes
  BY DEF ModOK, PrimeMod
<1>2. ASSUME NEW i \in DOMAIN a PROVE from(i) \in CodeChange
  <2>1. CASE s = "ENABLED"
    BY <1>1, <1>2, <2>1 DEF ModOK, PrimeMod, CodeChange
  <2>2. CASE s # "ENABLED" /\ i \in DOMAIN r.original_instructions
    BY <2>2 DEF ModOK, PrimeMod
  <2>3. CASE s # "ENABLED" /\ i \notin DOMAIN r.original_instructions
    BY <2>3
  <2> QED
    BY <2>1, <2>2, <2>3
<1>3. new \in Seq(CodeChange) /\ Len(new) = Len(a)
  <2>1. DOMAIN a = 1..Len(a) /\ Len(a) \in Nat /\ \A i \in DOMAIN a : a[i] \in CodeChange
    BY <1>1
  <2> HIDE DEF from, a
  <2>2. \A i \in 1..Len(a) : new[i] \in CodeChange
    BY <1>2, <2>1
  <2> QED
    BY <2>1, <2>2
<1>4. CASE r.group = {} \/ r.group_state = s
  BY <1>4 DEF set_code_group_state
<1>5. CASE ~ (r.group = {} \/ r.group_state = s)
  <2>1. set_code_group_state(m, r, s, junk)
          = [r EXCEPT !.group_state = s, !.current_active_changes = new]
    BY <1>5 DEF set_code_group_state
  <2> HIDE DEF new
  <2> QED
    BY <1>3, <2>1 DEF ModOK, PrimeMod
<1> QED
  BY <1>4, <1>5

LEMMA ResetAndUpdateType ==
  ASSUME TypeInv, NEW m \in Mods
  PROVE  ModOK(ResetAndUpdate(m))
<1> DEFINE r == IF game # last_game THEN reset_mod(mod[m]) ELSE mod[m]
<1>1. ModOK(r)
  BY ResetType DEF TypeInv, TypeOK
<1> HIDE DEF r
<1>2. ModOK(update_mod_states(m, r))
  BY <1>1, StateType DEF update_mod_states, ModState
<1> QED
  BY <1>2 DEF ResetAndUpdate, r

LEMMA InitAndApplyType ==
  ASSUME TypeInv, game \in Games, NEW m \in Mods, NEW r, ModOK(r)
  PROVE  ModOK(InitAndApply(m, r).r) /\ InitAndApply(m, r).words \in Words2Code
<1> DEFINE ready == IF r.initialized THEN r ELSE init_mod(m, r, Layout[m][game])
           backedUp == update_original_instructions(ready, mem[m])
<1>1. Layout[m][game] \in Seq(Entry) /\ mem[m] \in Words2Code
  BY ModsAssumption DEF TypeInv, TypeOK, Memory, Words2Code
<1>2. ModOK(ready)
  BY <1>1, InitType
<1> HIDE DEF ready
<1>3. ModOK(backedUp)
  BY <1>1, <1>2, BackupType
<1> HIDE DEF backedUp
<1>4. apply_instruction_changes(backedUp, mem[m]) \in Words2Code
  BY <1>1, <1>3, ApplyType DEF ModOK
<1>5. InitAndApply(m, r)
        = IF should_apply_changes(ready, mem[m])
          THEN [r |-> backedUp, words |-> apply_instruction_changes(backedUp, mem[m])]
          ELSE [r |-> ready, words |-> mem[m]]
  BY DEF InitAndApply, ready, backedUp
<1> QED
  BY <1>1, <1>2, <1>3, <1>4, <1>5

LEMMA RunModType ==
  ASSUME NEW m \in Mods, NEW f, ModOK(f.r), f.words \in Words2Code,
         NEW control \in BOOLEAN, NEW junk \in CodeChange
  PROVE  /\ ModOK(RunMod(m, f, control, junk).r)
         /\ RunMod(m, f, control, junk).words \in Words2Code
<1> DEFINE wanted == IF m \in config.groups THEN "ENABLED" ELSE "DISABLED"
           switched == set_code_group_state(m, f.r, wanted, junk)
           out == [switched EXCEPT !.state = "CODE_DISABLED"]
<1>1. ModOK(switched)
  BY GroupType DEF ModState
<1> HIDE DEF switched
<1>2. ModOK(out)
  BY <1>1, StateType DEF ModState
<1> HIDE DEF out
<1>3. apply_instruction_changes(out, f.words) \in Words2Code
  BY <1>2, ApplyType DEF ModOK
<1>4. RunMod(m, f, control, junk)
        = CASE f.r.state = "DISABLED" -> f
            [] f.r.state # "DISABLED" /\ m \in Controlled /\ ~ control ->
                 [r |-> out, words |-> apply_instruction_changes(out, f.words)]
            [] OTHER -> [r |-> switched, words |-> f.words]
  BY DEF RunMod, switched, out
<1>5. CASE f.r.state = "DISABLED"
  BY <1>4, <1>5
<1>6. CASE f.r.state # "DISABLED" /\ m \in Controlled /\ ~ control
  BY <1>2, <1>3, <1>4, <1>6
<1>7. CASE f.r.state # "DISABLED" /\ ~ (m \in Controlled /\ ~ control)
  BY <1>1, <1>4, <1>7
<1> QED
  BY <1>5, <1>6, <1>7

LEMMA TypeInit == Init => TypeInv
<1> SUFFICES ASSUME Init PROVE TypeInv
  OBVIOUS
<1>1. << >> \in Seq(Words) /\ << >> \in Seq(CodeChange)
  OBVIOUS
<1>2. ASSUME NEW m \in Mods PROVE mod[m] \in PrimeMod
  <2>1. ASSUME NEW a \in Seq(Words), NEW c \in Seq(CodeChange), NEW s \in ModState
        PROVE  [initialized |-> FALSE, state |-> s, code_changes |-> a,
                original_instructions |-> c, pending_change_backups |-> a,
                current_active_changes |-> c, group |-> {}, group_state |-> "ENABLED"]
                 \in PrimeMod
    BY DEF PrimeMod, ModState
  <2>2. (IF m \in AlwaysOn THEN "ENABLED" ELSE "DISABLED") \in ModState
    BY DEF ModState
  <2> QED
    BY <1>1, <2>1, <2>2 DEF Init
<1>3. \A m \in Mods : mod[m].code_changes = << >> /\ mod[m].current_active_changes = << >>
  BY DEF Init
<1>4. mod \in [Mods -> PrimeMod]
  BY <1>2 DEF Init
<1>5. mem \in Memory /\ game \in AllGames /\ last_game \in AllGames
  BY DEF Init, Memory, Own, AllGames
<1>6. mod_state_backup \in [Mods -> ModState]
  BY DEF Init, ModState
<1>7. config \in [mods : SUBSET Mods, groups : SUBSET Mods]
  BY DEF Init
<1> QED
  BY <1>2, <1>3, <1>4, <1>5, <1>6, <1>7 DEF Init, TypeInv, TypeOK, ModOK

LEMMA JunkType == \A junk \in Junk : junk \in CodeChange
BY ModsAssumption

LEMMA FrameType ==
  ASSUME TypeInv, NEW control \in BOOLEAN, NEW junk \in CodeChange, Frame(control, junk)
  PROVE  TypeInv'
<1>1. CASE game = INVALID_GAME
  <2>1. mod' = [m \in Mods |-> ResetAndUpdate(m)] /\ UNCHANGED <<mem, last_game>>
    BY <1>1 DEF Frame
  <2>2. \A m \in Mods : ModOK(ResetAndUpdate(m))
    BY ResetAndUpdateType
  <2>3. mod' \in [Mods -> PrimeMod] /\ \A m \in Mods : ModOK(mod'[m])
    BY <2>1, <2>2 DEF ModOK
  <2> QED
    BY <2>1, <2>3 DEF Frame, host, TypeInv, TypeOK
<1>2. CASE game # INVALID_GAME
  <2> DEFINE Done(m) == RunMod(m, InitAndApply(m, ResetAndUpdate(m)), control, junk)
  <2>1. /\ mod' = [m \in Mods |-> Done(m).r] /\ mem' = [m \in Mods |-> Done(m).words]
        /\ last_game' = game
    BY <1>2 DEF Frame
  <2>2. game \in Games
    BY <1>2 DEF TypeInv, TypeOK, AllGames
  <2>3. ASSUME NEW m \in Mods PROVE ModOK(Done(m).r) /\ Done(m).words \in Words2Code
    <3>1. ModOK(ResetAndUpdate(m))
      BY ResetAndUpdateType
    <3>2. /\ ModOK(InitAndApply(m, ResetAndUpdate(m)).r)
          /\ InitAndApply(m, ResetAndUpdate(m)).words \in Words2Code
      BY <2>2, <3>1, InitAndApplyType
    <3> QED
      BY <3>2, RunModType
  <2> HIDE DEF Done
  <2>4. /\ mod' \in [Mods -> PrimeMod] /\ (\A m \in Mods : ModOK(mod'[m]))
        /\ mem' \in Memory
    BY <2>1, <2>3 DEF ModOK, Memory, Words2Code
  <2> QED
    BY <2>1, <2>2, <2>4 DEF Frame, host, TypeInv, TypeOK, AllGames
<1> QED
  BY <1>1, <1>2

LEMMA RevertType ==
  ASSUME TypeInv, NEW s \in Savers, revert_all_code_changes(s)
  PROVE  TypeInv'
<1>1. ASSUME NEW m \in Mods PROVE ModOK(mod'[m]) /\ mem'[m] \in Words2Code
  <2>1. ModOK(mod[m]) /\ mem[m] \in Words2Code
    BY DEF TypeInv, TypeOK, Memory, Words2Code
  <2>2. ModOK([mod[m] EXCEPT !.state = "DISABLED"])
    BY <2>1, StateType DEF ModState
  <2>3. mod'[m] = IF mod[m].initialized THEN [mod[m] EXCEPT !.state = "DISABLED"] ELSE mod[m]
    BY DEF revert_all_code_changes
  <2>4. ModOK(mod'[m])
    BY <2>1, <2>2, <2>3
  <2>5. apply_instruction_changes(mod'[m], mem[m]) \in Words2Code
    BY <2>1, <2>4, ApplyType DEF ModOK
  <2>6. mem'[m] = IF mod[m].initialized THEN apply_instruction_changes(mod'[m], mem[m])
                  ELSE mem[m]
    BY DEF revert_all_code_changes
  <2> QED
    BY <2>1, <2>4, <2>5, <2>6
<1>2. mod' \in [Mods -> PrimeMod] /\ mem' \in Memory
  BY <1>1 DEF revert_all_code_changes, ModOK, Memory, Words2Code
<1>3. saver' \in [Savers -> {"idle", "revert", "write", "restore"}]
  BY DEF revert_all_code_changes, Move, TypeInv, TypeOK
<1> QED
  BY <1>1, <1>2, <1>3 DEF revert_all_code_changes, TypeInv, TypeOK

LEMMA TypeStep == TypeInv /\ [Next]_vars => TypeInv'
<1> SUFFICES ASSUME TypeInv, [Next]_vars PROVE TypeInv'
  OBVIOUS
<1>1. CASE UNCHANGED vars
  BY <1>1 DEF vars, host, TypeInv, TypeOK
<1>2. CASE AnyFrame
  BY <1>2, JunkType, FrameType DEF AnyFrame
<1>3. ASSUME NEW g \in AllGames, LoadGame(g) PROVE TypeInv'
  BY <1>3 DEF LoadGame, Own, host, TypeInv, TypeOK, Memory
<1>4. CASE Configure
  BY <1>4 DEF Configure, host, TypeInv, TypeOK
<1>5. CASE ConfigureGroup
  BY <1>5 DEF ConfigureGroup, host, TypeInv, TypeOK
<1>6. CASE SetPaused
  BY <1>6 DEF SetPaused, host, TypeInv, TypeOK
<1>7. CASE Shutdown
  <2>1. \A m \in Mods : ModOK(mod'[m])
    BY <1>7, ResetType DEF Shutdown, TypeInv, TypeOK
  <2>2. mod' \in [Mods -> PrimeMod]
    BY <1>7, <2>1 DEF Shutdown, ModOK
  <2>3. mem' \in Memory
    BY <1>7 DEF Shutdown, Own, Memory, AllGames
  <2> QED
    BY <1>7, <2>1, <2>2, <2>3 DEF Shutdown, host, TypeInv, TypeOK, AllGames
<1>8. ASSUME NEW s \in Savers, save_mod_states(s) PROVE TypeInv'
  <2>1. mod_state_backup' \in [Mods -> ModState]
    BY <1>8 DEF save_mod_states, TypeInv, TypeOK, PrimeMod
  <2> QED
    BY <1>8, <2>1 DEF save_mod_states, Move, TypeInv, TypeOK
<1>9. ASSUME NEW s \in Savers, revert_all_code_changes(s) PROVE TypeInv'
  BY <1>9, RevertType
<1>10. ASSUME NEW s \in Savers, WriteState(s) PROVE TypeInv'
  BY <1>10 DEF WriteState, Move, TypeInv, TypeOK
<1>11. ASSUME NEW s \in Savers, restore_mod_states(s) PROVE TypeInv'
  <2>1. ASSUME NEW m \in Mods PROVE ModOK(mod'[m])
    <3>1. ModOK(mod[m]) /\ mod_state_backup[m] \in ModState
      BY DEF TypeInv, TypeOK
    <3>2. ModOK([mod[m] EXCEPT !.state = mod_state_backup[m]])
      BY <3>1, StateType
    <3> QED
      BY <1>11, <3>1, <3>2 DEF restore_mod_states
  <2>2. mod' \in [Mods -> PrimeMod]
    BY <1>11, <2>1 DEF restore_mod_states, ModOK
  <2> QED
    BY <1>11, <2>1, <2>2 DEF restore_mod_states, Move, TypeInv, TypeOK
<1>12. CASE LoadAs
  BY <1>12 DEF LoadAs, host, TypeInv, TypeOK
<1> QED
  BY <1>1, <1>2, <1>3, <1>4, <1>5, <1>6, <1>7, <1>8, <1>9, <1>10, <1>11, <1>12
     DEF Next, SaveAs

(* Mods, memory and savestates keep their types, also when a group's        *)
(* indices refer to nothing.                                                *)
THEOREM TypeCorrect == Spec => []TypeOK
<1>1. TypeInv => TypeOK
  BY DEF TypeInv
<1> QED
  BY <1>1, TypeInit, TypeStep, PTL DEF Spec

-----------------------------------------------------------------------------
(* The inductive invariant, part one: a mod and its words.                  *)
(* reset_mod() leaves no change behind.                                     *)
Untouched(r) ==
  /\ DOMAIN r.code_changes = {} /\ DOMAIN r.original_instructions = {}
  /\ DOMAIN r.pending_change_backups = {} /\ DOMAIN r.current_active_changes = {}

(* The changes are those of the table for game g, in its order, and what    *)
(* they write is the mod's or the game's own; the latter only in a group.   *)
SetUpFor(m, r, g) ==
  LET e == Layout[m][g]
      a == r.current_active_changes
  IN  /\ r.initialized
      /\ DOMAIN r.code_changes = DOMAIN e /\ DOMAIN a = DOMAIN e
      /\ \A i \in DOMAIN e :
           /\ r.code_changes[i] = e[i].address /\ a[i].address = e[i].address
           /\ a[i].var \in {m, g}
           /\ i \notin r.group => a[i].var = m

(* The originals are all still to be recorded, and nothing is switched off; *)
(* or all are recorded, and they are the game's.                            *)
NotBackedUp(m, r, g) ==
  LET e == Layout[m][g]
  IN  /\ DOMAIN r.original_instructions = {}
      /\ DOMAIN r.pending_change_backups = DOMAIN e
      /\ \A i \in DOMAIN e : /\ r.pending_change_backups[i] = e[i].address
                             /\ r.current_active_changes[i].var = m
BackedUp(m, r, g) ==
  LET e == Layout[m][g]
      o == r.original_instructions
  IN  /\ DOMAIN r.pending_change_backups = {}
      /\ DOMAIN o = DOMAIN e
      /\ \A i \in DOMAIN e : o[i].address = e[i].address /\ o[i].var = g

ReadyFor(m, r, g) == SetUpFor(m, r, g) /\ (NotBackedUp(m, r, g) \/ BackedUp(m, r, g))

(* Only a mod without a switch of its own is in no need of one.             *)
ModInv(m, r, g) ==
  /\ ~ r.initialized => Untouched(r)
  /\ r.initialized => g \in Games /\ ReadyFor(m, r, g)
  /\ m \in AlwaysOn => r.state # "CODE_DISABLED"

(* A word holds the game's own instruction, or the patch of a mod that was  *)
(* set up for this game and knows the original.                             *)
Clean(words, g) == \A w \in Words : words[w] = g
Patchable(m, r, g) ==
  r.initialized /\ BackedUp(m, r, g) /\ DOMAIN Layout[m][g] # {}
MemInv(m, r, words, g, last) ==
  Clean(words, g) \/ /\ g = last /\ Patchable(m, r, g)
                     /\ \A w \in Words :
                          words[w] # g =>
                            /\ words[w] = m
                            /\ \E i \in DOMAIN Layout[m][g] : Layout[m][g][i].address = w

LEMMA LayoutFacts ==
  ASSUME NEW m \in Mods, NEW g \in Games
  PROVE  /\ Layout[m][g] \in Seq(Entry)
         /\ DOMAIN Layout[m][g] = 1..Len(Layout[m][g]) /\ Len(Layout[m][g]) \in Nat
         /\ \A i \in DOMAIN Layout[m][g] : Layout[m][g][i].address \in Words
         /\ \A i, j \in DOMAIN Layout[m][g] :
              Layout[m][g][i].address = Layout[m][g][j].address => i = j
         /\ m # g
<1>1. Layout[m][g] \in Seq(Entry)
  BY ModsAssumption
<1>2. DOMAIN Layout[m][g] = 1..Len(Layout[m][g]) /\ Len(Layout[m][g]) \in Nat
  BY <1>1
<1>3. \A i \in DOMAIN Layout[m][g] : Layout[m][g][i].address \in Words
  <2>1. \A i \in DOMAIN Layout[m][g] : Layout[m][g][i] \in Entry
    BY <1>1
  <2> QED
    BY <2>1 DEF Entry
<1>4. \A i, j \in 1..Len(Layout[m][g]) :
        Layout[m][g][i].address = Layout[m][g][j].address => i = j
  BY ModsAssumption
<1> QED
  BY <1>1, <1>2, <1>3, <1>4, ModsAssumption

(* Changes to different words do not disturb one another.                   *)
LEMMA ApplyFacts ==
  ASSUME NEW m \in Mods, NEW g \in Games, NEW r, NEW words,
         DOMAIN get_changes_to_apply(r) = DOMAIN Layout[m][g],
         \A i \in DOMAIN Layout[m][g] :
           get_changes_to_apply(r)[i].address = Layout[m][g][i].address
  PROVE  LET e == Layout[m][g]
             f == apply_instruction_changes(r, words)
         IN  /\ \A i \in DOMAIN e : f[e[i].address] = get_changes_to_apply(r)[i].var
             /\ \A w \in Words : (\A i \in DOMAIN e : e[i].address # w) => f[w] = words[w]
<1> DEFINE e == Layout[m][g]
           c == get_changes_to_apply(r)
           f == apply_instruction_changes(r, words)
           At(w) == {i \in DOMAIN c : c[i].address = w}
<1>1. \A w \in Words : f[w] = IF At(w) = {} THEN words[w]
                       ELSE c[CHOOSE i \in At(w) : \A j \in At(w) : j <= i].var
  BY DEF apply_instruction_changes
<1> HIDE DEF c, f
<1>2. ASSUME NEW i \in DOMAIN e PROVE f[e[i].address] = c[i].var
  <2>1. e[i].address \in Words /\ i \in Int
    BY LayoutFacts
  <2>2. At(e[i].address) = {i}
    BY LayoutFacts DEF c
  <2>3. (CHOOSE k \in {i} : \A j \in {i} : j <= k) = i
    BY <2>1
  <2> QED
    BY <1>1, <2>1, <2>2, <2>3
<1>3. ASSUME NEW w \in Words, \A i \in DOMAIN e : e[i].address # w PROVE f[w] = words[w]
  BY <1>1, <1>3 DEF c
<1> QED
  BY <1>2, <1>3 DEF c, f

(* Putting the originals back.                                              *)
LEMMA RevertFacts ==
  ASSUME NEW m \in Mods, NEW g \in Games, NEW r, r.state \in {"DISABLED", "CODE_DISABLED"},
         BackedUp(m, r, g), NEW words,
         \A w \in Words : words[w] = g \/ \E i \in DOMAIN Layout[m][g] : Layout[m][g][i].address = w
  PROVE  Clean(apply_instruction_changes(r, words), g)
<1>1. get_changes_to_apply(r) = r.original_instructions
  BY DEF get_changes_to_apply
<1>2. \A i \in DOMAIN Layout[m][g] :
        apply_instruction_changes(r, words)[Layout[m][g][i].address] = g
  BY <1>1, ApplyFacts DEF BackedUp
<1>3. \A w \in Words : (\A i \in DOMAIN Layout[m][g] : Layout[m][g][i].address # w)
        => apply_instruction_changes(r, words)[w] = words[w]
  BY <1>1, ApplyFacts DEF BackedUp
<1> QED
  BY <1>2, <1>3 DEF Clean

LEMMA EmptyDomain ==
  ASSUME NEW S, NEW q \in Seq(S), DOMAIN q = {}
  PROVE  Len(q) = 0 /\ q = << >>
<1>1. DOMAIN q = 1..Len(q) /\ Len(q) \in Nat
  OBVIOUS
<1>2. Len(q) = 0
  BY <1>1
<1> QED
  BY <1>2, EmptySeq

LEMMA EmptyConcat ==
  ASSUME NEW S, NEW s \in Seq(S), NEW t \in Seq(S)
  PROVE  (DOMAIN s = {} => s \o t = t) /\ (DOMAIN t = {} => s \o t = s)
BY EmptyDomain, ConcatEmptySeq

(* A reset leaves nothing of the old game; without one, the mod stays set   *)
(* up, and only its state follows the user's settings.                      *)
LEMMA ResetAndUpdateFacts ==
  ASSUME TypeInv, NEW m \in Mods, ModInv(m, mod[m], last_game)
  PROVE  LET A == ResetAndUpdate(m)
         IN  /\ ModInv(m, A, game) /\ A.state \in {"ENABLED", "DISABLED"}
             /\ A.group = mod[m].group
             /\ game # last_game => ~ A.initialized
             /\ game = last_game =>
                  /\ A.initialized = mod[m].initialized
                  /\ BackedUp(m, A, game) <=> BackedUp(m, mod[m], game)
<1> DEFINE A == ResetAndUpdate(m)
<1>1. mod[m] \in PrimeMod
  BY DEF TypeInv, TypeOK
<1>2. CASE game # last_game
  <2> DEFINE r == reset_mod(mod[m])
  <2>1. /\ ~ r.initialized /\ r.state = mod[m].state /\ r.group = mod[m].group
        /\ r.code_changes = << >> /\ r.original_instructions = << >>
        /\ r.pending_change_backups = << >> /\ r.current_active_changes = << >>
    BY <1>1 DEF reset_mod, PrimeMod
  <2>2. r \in PrimeMod
    BY <1>1, ResetType DEF ModOK
  <2>3. A = update_mod_states(m, r)
    BY <1>2 DEF ResetAndUpdate
  <2>4. DOMAIN << >> = {}
    OBVIOUS
  <2>5. Untouched(r)
    BY <2>1, <2>4 DEF Untouched
  <2> HIDE DEF r
  <2>6. /\ ~ A.initialized /\ Untouched(A) /\ A.group = mod[m].group
        /\ A.state \in {"ENABLED", "DISABLED"}
    BY <2>1, <2>2, <2>3, <2>5
       DEF update_mod_states, PrimeMod, Untouched, ModInv, ModState
  <2> QED
    BY <1>2, <2>6 DEF ModInv
<1>3. CASE game = last_game
  <2>1. A = update_mod_states(m, mod[m])
    BY <1>3 DEF ResetAndUpdate
  <2>2. /\ A.initialized = mod[m].initialized /\ A.group = mod[m].group
        /\ A.code_changes = mod[m].code_changes
        /\ A.original_instructions = mod[m].original_instructions
        /\ A.pending_change_backups = mod[m].pending_change_backups
        /\ A.current_active_changes = mod[m].current_active_changes
        /\ A.state \in {"ENABLED", "DISABLED"}
    BY <1>1, <2>1 DEF update_mod_states, PrimeMod, ModInv, ModState
  <2> HIDE DEF A
  <2>3. ModInv(m, A, game)
    BY <1>3, <2>2 DEF ModInv, Untouched, ReadyFor, SetUpFor, NotBackedUp, BackedUp
  <2>4. BackedUp(m, A, game) <=> BackedUp(m, mod[m], game)
    BY <2>2 DEF BackedUp
  <2> QED
    BY <1>3, <2>2, <2>3, <2>4 DEF A
<1> QED
  BY <1>2, <1>3

(* init_mod() on a mod that is untouched.                                   *)
LEMMA InitFacts ==
  ASSUME NEW m \in Mods, NEW g \in Games, NEW r, ModOK(r), Untouched(r)
  PROVE  LET f == init_mod(m, r, Layout[m][g])
         IN  /\ SetUpFor(m, f, g) /\ NotBackedUp(m, f, g)
             /\ f.state = r.state
             /\ f.group = r.group \cup {i \in DOMAIN Layout[m][g] : Layout[m][g][i].grouped}
<1> DEFINE e == Layout[m][g]
           addresses == [i \in DOMAIN e |-> e[i].address]
           changes == [i \in DOMAIN e |-> [address |-> e[i].address, var |-> m]]
           indices == {i \in DOMAIN e : e[i].grouped}
           f == init_mod(m, r, e)
<1>1. addresses \in Seq(Words) /\ changes \in Seq(CodeChange)
  <2>1. e \in Seq(Entry)
    BY LayoutFacts
  <2> HIDE DEF e
  <2>2. /\ Len(e) \in Nat /\ addresses \in [1..Len(e) -> Words]
        /\ changes \in [1..Len(e) -> CodeChange]
    BY <2>1, EntriesType
  <2> HIDE DEF addresses, changes
  <2> QED
    BY <2>2, FunctionIsSeq
<1>2. /\ r.code_changes \in Seq(Words) /\ r.pending_change_backups \in Seq(Words)
      /\ r.current_active_changes \in Seq(CodeChange) /\ r \in PrimeMod
  BY DEF ModOK, PrimeMod
<1>3. /\ r.code_changes \o addresses = addresses
      /\ r.pending_change_backups \o addresses = addresses
      /\ r.current_active_changes \o changes = changes
  <2>1. DOMAIN r.code_changes = {} /\ DOMAIN r.pending_change_backups = {}
        /\ DOMAIN r.current_active_changes = {}
    BY DEF Untouched
  <2> HIDE DEF addresses, changes
  <2>2. addresses \in Seq(Words)
    BY <1>1
  <2>3. ASSUME NEW q \in Seq(Words), DOMAIN q = {} PROVE q \o addresses = addresses
    BY <2>2, <2>3, EmptyConcat
  <2>4. ASSUME NEW q \in Seq(CodeChange), DOMAIN q = {} PROVE q \o changes = changes
    <3>1. changes \in Seq(CodeChange)
      BY <1>1
    <3> QED
      BY <2>4, <3>1, EmptyConcat
  <2> QED
    BY <1>2, <2>1, <2>3, <2>4
<1>4. {Len(r.code_changes) + i : i \in indices} = indices
  <2>1. Len(r.code_changes) = 0
    <3>1. DOMAIN r.code_changes = {} /\ r.code_changes \in Seq(Words)
      BY <1>2 DEF Untouched
    <3> QED
      BY <3>1, EmptyDomain
  <2>2. \A i \in indices : i \in Nat
    BY LayoutFacts
  <2>3. \A i \in indices : 0 + i = i
    BY <2>2
  <2> QED
    BY <2>1, <2>3
<1>5. f = [r EXCEPT !.code_changes = addresses,
                    !.pending_change_backups = addresses,
                    !.current_active_changes = changes,
                    !.group = @ \cup indices,
                    !.group_state = IF indices = {} THEN @ ELSE "ENABLED",
                    !.initialized = TRUE]
  BY <1>3, <1>4 DEF init_mod
<1> HIDE DEF f
<1>6. /\ f.initialized /\ f.code_changes = addresses /\ f.current_active_changes = changes
      /\ f.pending_change_backups = addresses /\ f.state = r.state
      /\ f.original_instructions = r.original_instructions
      /\ f.group = r.group \cup indices
  BY <1>2, <1>5 DEF PrimeMod
<1>7. SetUpFor(m, f, g)
  BY <1>6 DEF SetUpFor
<1>8. NotBackedUp(m, f, g)
  BY <1>6 DEF NotBackedUp, Untouched
<1> QED
  BY <1>6, <1>7, <1>8 DEF f

(* Recording the originals of a mod whose words are clean; a second time    *)
(* records nothing.                                                         *)
LEMMA BackupFacts ==
  ASSUME NEW m \in Mods, NEW g \in Games, NEW r, ModOK(r), ReadyFor(m, r, g), NEW words,
         words \in Words2Code, MemInv(m, r, words, g, g)
  PROVE  LET f == update_original_instructions(r, words)
         IN  SetUpFor(m, f, g) /\ BackedUp(m, f, g) /\ f.state = r.state /\ f.group = r.group
             /\ f.current_active_changes = r.current_active_changes
<1> DEFINE p == r.pending_change_backups
           o == r.original_instructions
           e == Layout[m][g]
           new == [i \in DOMAIN p |-> [address |-> p[i], var |-> words[p[i]]]]
           f == update_original_instructions(r, words)
<1>1. p \in Seq(Words) /\ o \in Seq(CodeChange) /\ r \in PrimeMod
  BY DEF ModOK, PrimeMod
<1>2. new \in Seq(CodeChange)
  <2>1. \A i \in DOMAIN p : [address |-> p[i], var |-> words[p[i]]] \in CodeChange
    BY <1>1 DEF CodeChange, Words2Code
  <2>2. DOMAIN p = 1..Len(p) /\ Len(p) \in Nat
    BY <1>1
  <2> QED
    BY <2>1, <2>2
<1>3. f = [r EXCEPT !.original_instructions = o \o new, !.pending_change_backups = << >>]
  BY DEF update_original_instructions
<1> HIDE DEF f
<1>4. /\ f.initialized = r.initialized /\ f.state = r.state /\ f.group = r.group
      /\ f.code_changes = r.code_changes
      /\ f.current_active_changes = r.current_active_changes
      /\ f.original_instructions = o \o new /\ f.pending_change_backups = << >>
  BY <1>1, <1>3 DEF PrimeMod
<1>5. SetUpFor(m, f, g)
  BY <1>4 DEF ReadyFor, SetUpFor
<1>6. DOMAIN f.pending_change_backups = {}
  BY <1>4
<1>7. ASSUME NotBackedUp(m, r, g) PROVE BackedUp(m, f, g)
  <2>1. o \o new = new
    BY <1>1, <1>2, <1>7, EmptyConcat DEF NotBackedUp
  <2>2. DOMAIN new = DOMAIN e
    BY <1>7 DEF NotBackedUp
  <2>3. ASSUME NEW i \in DOMAIN e PROVE words[e[i].address] = g
    <3>1. Clean(words, g) \/ BackedUp(m, r, g)
      BY DEF MemInv, Patchable
    <3>2. ~ BackedUp(m, r, g)
      BY <1>7, <2>3 DEF NotBackedUp, BackedUp
    <3> QED
      BY <3>1, <3>2, LayoutFacts DEF Clean
  <2>4. \A i \in DOMAIN e : new[i].address = e[i].address /\ new[i].var = g
    BY <1>7, <2>3 DEF NotBackedUp
  <2> HIDE DEF new
  <2> QED
    BY <1>4, <1>5, <1>6, <2>1, <2>2, <2>4 DEF BackedUp
<1>8. ASSUME BackedUp(m, r, g) PROVE BackedUp(m, f, g)
  <2>1. o \o new = o
    BY <1>1, <1>2, <1>8, EmptyConcat DEF BackedUp
  <2> QED
    BY <1>4, <1>5, <1>6, <1>8, <2>1 DEF BackedUp
<1> QED
  BY <1>4, <1>5, <1>7, <1>8 DEF ReadyFor, f

(* After InitAndApply() a mod is set up for the game; one that is enabled   *)
(* has its originals, and its changes are in memory; of one that is not,    *)
(* memory is clean.                                                         *)
LEMMA InitAndApplyFacts ==
  ASSUME TypeInv, game \in Games, NEW m \in Mods, NEW r, ModOK(r), ModInv(m, r, game),
         MemInv(m, r, mem[m], game, game), r.state \in {"ENABLED", "DISABLED"}
  PROVE  LET f == InitAndApply(m, r)
             e == Layout[m][game]
         IN  /\ ReadyFor(m, f.r, game) /\ f.r.state = r.state
             /\ f.r.group = IF r.initialized THEN r.group
                            ELSE r.group \cup {i \in DOMAIN e : e[i].grouped}
             /\ r.state = "DISABLED" => Clean(f.words, game)
             /\ r.state = "ENABLED" =>
                  /\ BackedUp(m, f.r, game)
                  /\ \A i \in DOMAIN e :
                       f.words[e[i].address] = f.r.current_active_changes[i].var
                  /\ \A w \in Words : (\A i \in DOMAIN e : e[i].address # w) => f.words[w] = game
<1> DEFINE e == Layout[m][game]
           ready == IF r.initialized THEN r ELSE init_mod(m, r, e)
           backedUp == update_original_instructions(ready, mem[m])
           c == get_changes_to_apply(ready)
           f == InitAndApply(m, r)
<1>1. e \in Seq(Entry) /\ mem[m] \in Words2Code
  BY ModsAssumption DEF TypeInv, TypeOK, Memory, Words2Code
<1>2. ModOK(ready)
  BY <1>1, InitType
<1>3. /\ ReadyFor(m, ready, game) /\ ready.state = r.state
      /\ ready.group = IF r.initialized THEN r.group
                       ELSE r.group \cup {i \in DOMAIN e : e[i].grouped}
      /\ MemInv(m, ready, mem[m], game, game)
  <2>1. CASE r.initialized
    BY <2>1 DEF ModInv
  <2>2. CASE ~ r.initialized
    <3>1. Untouched(r) /\ Clean(mem[m], game)
      BY <2>2 DEF ModInv, MemInv, Patchable
    <3> QED
      BY <2>2, <3>1, InitFacts DEF ReadyFor, MemInv
  <2> QED
    BY <2>1, <2>2
<1>4. f = IF should_apply_changes(ready, mem[m])
          THEN [r |-> backedUp, words |-> apply_instruction_changes(backedUp, mem[m])]
          ELSE [r |-> ready, words |-> mem[m]]
  BY DEF InitAndApply
<1> HIDE DEF ready, f
<1>5. /\ SetUpFor(m, backedUp, game) /\ BackedUp(m, backedUp, game)
      /\ backedUp.state = ready.state /\ backedUp.group = ready.group
      /\ backedUp.current_active_changes = ready.current_active_changes
  BY <1>1, <1>2, <1>3, BackupFacts
<1> HIDE DEF backedUp
<1>6. \A w \in Words : mem[m][w] = game \/ \E i \in DOMAIN e : e[i].address = w
  BY <1>3 DEF MemInv, Clean
<1>7. ReadyFor(m, f.r, game) /\ f.r.state = r.state /\ f.r.group = ready.group
  BY <1>3, <1>4, <1>5 DEF ReadyFor
<1>8. ASSUME r.state = "DISABLED" PROVE Clean(f.words, game)
  <2>1. CASE should_apply_changes(ready, mem[m])
    BY <1>3, <1>4, <1>5, <1>6, <1>8, <2>1, RevertFacts
  <2>2. CASE ~ should_apply_changes(ready, mem[m])
    <3>1. c = ready.original_instructions
      BY <1>3, <1>8 DEF get_changes_to_apply
    <3>2. \A i \in DOMAIN c : mem[m][c[i].address] = c[i].var
      BY <2>2 DEF should_apply_changes
    <3>3. CASE BackedUp(m, ready, game)
      BY <1>4, <1>6, <2>2, <3>1, <3>2, <3>3 DEF BackedUp, Clean
    <3>4. CASE ~ BackedUp(m, ready, game)
      BY <1>3, <1>4, <2>2, <3>4 DEF MemInv, Patchable
    <3> QED
      BY <3>3, <3>4
  <2> QED
    BY <2>1, <2>2
<1>9. ASSUME r.state = "ENABLED"
      PROVE  /\ BackedUp(m, f.r, game)
             /\ \A i \in DOMAIN e : f.words[e[i].address] = f.r.current_active_changes[i].var
             /\ \A w \in Words : (\A i \in DOMAIN e : e[i].address # w) => f.words[w] = game
  <2>1. CASE should_apply_changes(ready, mem[m])
    <3>1. get_changes_to_apply(backedUp) = backedUp.current_active_changes
      BY <1>3, <1>5, <1>9 DEF get_changes_to_apply
    <3>2. /\ DOMAIN get_changes_to_apply(backedUp) = DOMAIN e
          /\ \A i \in DOMAIN e : get_changes_to_apply(backedUp)[i].address = e[i].address
      BY <1>5, <3>1 DEF SetUpFor
    <3>3. f.r = backedUp /\ f.words = apply_instruction_changes(backedUp, mem[m])
      BY <1>4, <2>1
    <3> QED
      BY <1>5, <1>6, <3>1, <3>2, <3>3, ApplyFacts
  <2>2. CASE ~ should_apply_changes(ready, mem[m])
    <3>1. c = ready.current_active_changes
      BY <1>3, <1>9 DEF get_changes_to_apply
    <3>2. \A i \in DOMAIN c : mem[m][c[i].address] = c[i].var
      BY <2>2 DEF should_apply_changes
    <3>3. f.r = ready /\ f.words = mem[m]
      BY <1>4, <2>2
    <3>4. \A i \in DOMAIN e : mem[m][e[i].address] = ready.current_active_changes[i].var
      BY <1>3, <3>1, <3>2 DEF ReadyFor, SetUpFor
    <3>5. BackedUp(m, ready, game)
      <4>1. CASE DOMAIN e = {}
        BY <1>3, <4>1 DEF ReadyFor, NotBackedUp, BackedUp
      <4>2. ASSUME NEW i \in DOMAIN e, ~ BackedUp(m, ready, game) PROVE FALSE
        <5>1. Clean(mem[m], game) /\ ready.current_active_changes[i].var = m
          BY <1>3, <4>2 DEF MemInv, Patchable, ReadyFor, NotBackedUp
        <5> QED
          BY <3>4, <5>1, LayoutFacts DEF Clean
      <4> QED
        BY <4>1, <4>2
    <3> QED
      BY <1>6, <3>3, <3>4, <3>5
  <2> QED
    BY <2>1, <2>2
<1> QED
  BY <1>3, <1>7, <1>8, <1>9 DEF f

(* Switching a group moves changes between the mod's and the game's         *)
(* instructions; with the originals recorded, no index goes astray.         *)
LEMMA GroupFacts ==
  ASSUME NEW m \in Mods, NEW g \in Games, NEW r, ModOK(r), SetUpFor(m, r, g),
         BackedUp(m, r, g), NEW s \in ModState, NEW junk
  PROVE  LET f == set_code_group_state(m, r, s, junk)
         IN  SetUpFor(m, f, g) /\ BackedUp(m, f, g) /\ f.state = r.state /\ f.group = r.group
<1> DEFINE a == r.current_active_changes
           e == Layout[m][g]
           from(i) == CASE s = "ENABLED" -> [address |-> r.code_changes[i], var |-> m]
                        [] s # "ENABLED" /\ i \in DOMAIN r.original_instructions ->
                             r.original_instructions[i]
                        [] OTHER -> junk
           new == [i \in DOMAIN a |-> IF i \in r.group THEN from(i) ELSE a[i]]
           f == set_code_group_state(m, r, s, junk)
<1>1. ASSUME NEW i \in DOMAIN e
      PROVE  from(i).address = e[i].address /\ from(i).var \in {m, g}
  <2>1. CASE s = "ENABLED"
    BY <2>1 DEF SetUpFor
  <2>2. CASE s # "ENABLED"
    BY <2>2 DEF BackedUp
  <2> QED
    BY <2>1, <2>2
<1>2. CASE r.group = {} \/ r.group_state = s
  BY <1>2 DEF set_code_group_state
<1>3. CASE ~ (r.group = {} \/ r.group_state = s)
  <2>1. f = [r EXCEPT !.group_state = s, !.current_active_changes = new]
    BY <1>3 DEF set_code_group_state
  <2>2. /\ DOMAIN new = DOMAIN e
        /\ \A i \in DOMAIN e : /\ new[i].address = e[i].address /\ new[i].var \in {m, g}
                               /\ i \notin r.group => new[i].var = m
    <3> HIDE DEF from
    <3> QED
      BY <1>1 DEF SetUpFor
  <2> HIDE DEF new, f
  <2>3. /\ f.initialized = r.initialized /\ f.state = r.state /\ f.group = r.group
        /\ f.code_changes = r.code_changes /\ f.current_active_changes = new
        /\ f.original_instructions = r.original_instructions
        /\ f.pending_change_backups = r.pending_change_backups
    BY <2>1 DEF ModOK, PrimeMod
  <2>4. SetUpFor(m, f, g) /\ BackedUp(m, f, g)
    BY <2>2, <2>3 DEF SetUpFor, BackedUp
  <2> QED
    BY <2>3, <2>4 DEF f
<1> QED
  BY <1>2, <1>3

(* After run_mod(): as after InitAndApply(), but for a mod whose code is    *)
(* out.                                                                     *)
LEMMA RunModFacts ==
  ASSUME NEW m \in Mods, NEW g \in Games, NEW f, ModOK(f.r), ReadyFor(m, f.r, g),
         f.r.state \in {"ENABLED", "DISABLED"},
         f.r.state = "DISABLED" => Clean(f.words, g),
         f.r.state = "ENABLED" =>
           /\ BackedUp(m, f.r, g)
           /\ \A i \in DOMAIN Layout[m][g] :
                f.words[Layout[m][g][i].address] = f.r.current_active_changes[i].var
           /\ \A w \in Words : (\A i \in DOMAIN Layout[m][g] : Layout[m][g][i].address # w)
                                => f.words[w] = g,
         NEW control \in BOOLEAN, NEW junk \in CodeChange
  PROVE  LET d == RunMod(m, f, control, junk)
             e == Layout[m][g]
         IN  /\ ReadyFor(m, d.r, g) /\ d.r.group = f.r.group
             /\ m \in AlwaysOn => d.r.state # "CODE_DISABLED"
             /\ MemInv(m, d.r, d.words, g, g)
             /\ d.r.state # "ENABLED" => Clean(d.words, g)
             /\ d.r.state = "ENABLED" =>
                  \A i \in DOMAIN e : i \notin d.r.group => d.words[e[i].address] = m
<1> DEFINE wanted == IF m \in config.groups THEN "ENABLED" ELSE "DISABLED"
           switched == set_code_group_state(m, f.r, wanted, junk)
           out == [switched EXCEPT !.state = "CODE_DISABLED"]
           d == RunMod(m, f, control, junk)
           e == Layout[m][g]
<1>1. d = CASE f.r.state = "DISABLED" -> f
            [] f.r.state # "DISABLED" /\ m \in Controlled /\ ~ control ->
                 [r |-> out, words |-> apply_instruction_changes(out, f.words)]
            [] OTHER -> [r |-> switched, words |-> f.words]
  BY DEF RunMod
<1> HIDE DEF d
<1>2. CASE f.r.state = "DISABLED"
  <2>1. d = f
    BY <1>1, <1>2
  <2> QED
    BY <1>2, <2>1 DEF d, MemInv
<1>3. CASE f.r.state = "ENABLED"
  <2>1. \A w \in Words : f.words[w] = g \/ \E i \in DOMAIN e : e[i].address = w
    BY <1>3
  <2>2. SetUpFor(m, switched, g) /\ BackedUp(m, switched, g)
        /\ switched.state = "ENABLED" /\ switched.group = f.r.group
    <3>1. wanted \in ModState
      BY DEF ModState
    <3> QED
      BY <1>3, <3>1, GroupFacts DEF ReadyFor
  <2>3. ModOK(switched)
    BY GroupType DEF ModState
  <2>4. CASE m \in Controlled /\ ~ control
    <3>1. d.r = out /\ d.words = apply_instruction_changes(out, f.words)
      BY <1>1, <1>3, <2>4
    <3>2. SetUpFor(m, out, g) /\ BackedUp(m, out, g) /\ out.state = "CODE_DISABLED"
          /\ out.group = f.r.group
      BY <2>2, <2>3 DEF ModOK, PrimeMod, SetUpFor, BackedUp
    <3> HIDE DEF out
    <3>3. Clean(d.words, g)
      BY <2>1, <3>1, <3>2, RevertFacts
    <3>4. m \notin AlwaysOn
      BY <2>4, ModsAssumption
    <3> QED
      BY <3>1, <3>2, <3>3, <3>4 DEF d, ReadyFor, MemInv
  <2>5. CASE ~ (m \in Controlled /\ ~ control)
    <3>1. d.r = switched /\ d.words = f.words
      BY <1>1, <1>3, <2>5
    <3> HIDE DEF switched
    <3>2. \A i \in DOMAIN e : d.words[e[i].address] \in {m, g}
      BY <1>3, <3>1 DEF ReadyFor, SetUpFor
    <3>3. \A i \in DOMAIN e : i \notin d.r.group => d.words[e[i].address] = m
      BY <1>3, <2>2, <3>1 DEF ReadyFor, SetUpFor
    <3>4. MemInv(m, d.r, d.words, g, g)
      <4>1. CASE DOMAIN e = {}
        BY <2>1, <3>1, <4>1 DEF MemInv, Clean
      <4>2. CASE DOMAIN e # {}
        <5>1. Patchable(m, d.r, g)
          BY <2>2, <3>1, <4>2 DEF Patchable, SetUpFor
        <5>2. ASSUME NEW w \in Words, d.words[w] # g
              PROVE  d.words[w] = m /\ \E i \in DOMAIN e : e[i].address = w
          <6>1. PICK i \in DOMAIN e : e[i].address = w
            BY <2>1, <3>1, <5>2
          <6> QED
            BY <3>2, <5>2, <6>1
        <5> HIDE DEF d
        <5> QED
          BY <5>1, <5>2 DEF MemInv
      <4> QED
        BY <4>1, <4>2
    <3> QED
      BY <2>2, <3>1, <3>3, <3>4 DEF d, ReadyFor
  <2> QED
    BY <2>4, <2>5
<1> QED
  BY <1>2, <1>3

(* A mod after a frame of a game ...                                        *)
LEMMA FrameFacts ==
  ASSUME TypeInv, game \in Games, NEW m \in Mods, ModInv(m, mod[m], last_game),
         MemInv(m, mod[m], mem[m], game, last_game),
         NEW control \in BOOLEAN, NEW junk \in CodeChange
  PROVE  LET d == RunMod(m, InitAndApply(m, ResetAndUpdate(m)), control, junk)
             e == Layout[m][game]
         IN  /\ ModInv(m, d.r, game) /\ MemInv(m, d.r, d.words, game, game)
             /\ d.r.group \subseteq mod[m].group \cup {i \in DOMAIN e : e[i].grouped}
             /\ d.r.state # "ENABLED" => Clean(d.words, game)
             /\ d.r.state = "ENABLED" =>
                  \A i \in DOMAIN e : i \notin d.r.group => d.words[e[i].address] = m
<1> DEFINE A == ResetAndUpdate(m)
           f == InitAndApply(m, A)
           d == RunMod(m, f, control, junk)
           e == Layout[m][game]
<1>1. /\ ModInv(m, A, game) /\ A.state \in {"ENABLED", "DISABLED"} /\ A.group = mod[m].group
      /\ game # last_game => ~ A.initialized
      /\ game = last_game =>
           /\ A.initialized = mod[m].initialized
           /\ BackedUp(m, A, game) <=> BackedUp(m, mod[m], game)
  BY ResetAndUpdateFacts
<1>2. ModOK(A)
  BY ResetAndUpdateType
<1> HIDE DEF A
<1>3. MemInv(m, A, mem[m], game, game)
  BY <1>1 DEF MemInv, Patchable
<1>4. /\ ReadyFor(m, f.r, game) /\ f.r.state = A.state
      /\ f.r.group = IF A.initialized THEN A.group
                     ELSE A.group \cup {i \in DOMAIN e : e[i].grouped}
      /\ A.state = "DISABLED" => Clean(f.words, game)
      /\ A.state = "ENABLED" =>
           /\ BackedUp(m, f.r, game)
           /\ \A i \in DOMAIN e : f.words[e[i].address] = f.r.current_active_changes[i].var
           /\ \A w \in Words : (\A i \in DOMAIN e : e[i].address # w) => f.words[w] = game
  BY <1>1, <1>2, <1>3, InitAndApplyFacts
<1>5. ModOK(f.r)
  BY <1>2, InitAndApplyType
<1> HIDE DEF f
<1>6. /\ ReadyFor(m, d.r, game) /\ d.r.group = f.r.group
      /\ m \in AlwaysOn => d.r.state # "CODE_DISABLED"
      /\ MemInv(m, d.r, d.words, game, game)
      /\ d.r.state # "ENABLED" => Clean(d.words, game)
      /\ d.r.state = "ENABLED" =>
           \A i \in DOMAIN e : i \notin d.r.group => d.words[e[i].address] = m
  BY <1>1, <1>4, <1>5, RunModFacts
<1> HIDE DEF d
<1>7. ModInv(m, d.r, game)
  BY <1>6 DEF ModInv, ReadyFor, SetUpFor
<1>8. d.r.group \subseteq mod[m].group \cup {i \in DOMAIN e : e[i].grouped}
  BY <1>1, <1>4, <1>6
<1> QED
  BY <1>6, <1>7, <1>8 DEF d, f, A

(* ... and after a frame of something else.                                 *)
LEMMA OtherFrameFacts ==
  ASSUME TypeInv, game = INVALID_GAME, NEW m \in Mods, ModInv(m, mod[m], last_game),
         MemInv(m, mod[m], mem[m], game, last_game)
  PROVE  /\ ModInv(m, ResetAndUpdate(m), last_game)
         /\ Clean(mem[m], game)
         /\ ResetAndUpdate(m).group = mod[m].group
<1> DEFINE A == ResetAndUpdate(m)
<1>1. /\ ModInv(m, A, game) /\ A.group = mod[m].group
      /\ game # last_game => ~ A.initialized
      /\ game = last_game => A.initialized = mod[m].initialized
  BY ResetAndUpdateFacts
<1> HIDE DEF A
<1>2. game \notin Games
  BY ModsAssumption
<1>3. ModInv(m, A, last_game)
  BY <1>1, <1>2 DEF ModInv
<1>4. Clean(mem[m], game)
  BY <1>2 DEF MemInv, Patchable, ModInv
<1> QED
  BY <1>1, <1>3, <1>4 DEF A

-----------------------------------------------------------------------------
(* Part two: the savers.  Between reverting and writing, memory is the      *)
(* game's own, as long as no frame is run.                                  *)
SaverInv ==
  /\ \A s \in Savers : saver[s] = "write" => \A m \in Mods : Clean(mem[m], game)
  /\ \A m \in AlwaysOn : mod_state_backup[m] # "CODE_DISABLED"

SavedClean == saved # NoState => \A m \in Mods : Clean(saved.mem[m], saved.game)

ModsInv ==
  \A m \in Mods : /\ ModInv(m, mod[m], last_game)
                  /\ MemInv(m, mod[m], mem[m], game, last_game)

MInv == ModsInv /\ SaverInv /\ SavedClean

LEMMA MInit == Init => MInv
<1> SUFFICES ASSUME Init PROVE MInv
  OBVIOUS
<1>1. DOMAIN << >> = {}
  OBVIOUS
<1>2. ASSUME NEW m \in Mods
      PROVE  ModInv(m, mod[m], last_game) /\ Clean(mem[m], game)
  BY <1>1 DEF Init, ModInv, Untouched, Clean, Own
<1>3. SaverInv
  BY ModsAssumption DEF Init, SaverInv
<1> QED
  BY <1>2, <1>3 DEF Init, MInv, ModsInv, MemInv, SavedClean

LEMMA MFrame ==
  ASSUME TypeInv, MInv, ~ disturbed',
         NEW control \in BOOLEAN, NEW junk \in CodeChange, Frame(control, junk)
  PROVE  MInv'
<1>1. ModsInv'
  <2>1. CASE game = INVALID_GAME
    <3>1. /\ \A m \in Mods : mod'[m] = ResetAndUpdate(m)
          /\ UNCHANGED <<mem, last_game, game>>
      BY <2>1 DEF Frame
    <3>2. \A m \in Mods : ModInv(m, mod'[m], last_game) /\ Clean(mem[m], game)
      BY <2>1, <3>1, OtherFrameFacts DEF MInv, ModsInv
    <3> QED
      BY <3>1, <3>2 DEF ModsInv, MemInv
  <2>2. CASE game # INVALID_GAME
    <3> DEFINE Done(m) == RunMod(m, InitAndApply(m, ResetAndUpdate(m)), control, junk)
    <3>1. /\ \A m \in Mods : mod'[m] = Done(m).r /\ mem'[m] = Done(m).words
          /\ last_game' = game /\ game' = game
      BY <2>2 DEF Frame
    <3>2. game \in Games
      BY <2>2 DEF TypeInv, TypeOK, AllGames
    <3>3. \A m \in Mods : ModInv(m, Done(m).r, game)
                        /\ MemInv(m, Done(m).r, Done(m).words, game, game)
      BY <3>2, FrameFacts DEF MInv, ModsInv
    <3> QED
      BY <3>1, <3>3 DEF ModsInv
  <2> QED
    BY <2>1, <2>2
<1>2. \A s \in Savers : saver[s] # "write"
  BY DEF Frame
<1>3. SaverInv'
  BY <1>2 DEF MInv, SaverInv, Frame, host
<1>4. SavedClean'
  BY DEF MInv, SavedClean, Frame
<1> QED
  BY <1>1, <1>3, <1>4 DEF MInv

LEMMA MRevert ==
  ASSUME TypeInv, MInv, ~ disturbed', NEW s \in Savers, revert_all_code_changes(s)
  PROVE  MInv'
<1>1. SeenByMods
  BY DEF revert_all_code_changes
<1>2. ASSUME NEW m \in Mods
      PROVE  /\ ModInv(m, mod'[m], last_game) /\ Clean(mem'[m], game)
             /\ mod'[m].initialized = mod[m].initialized
             /\ ~ mod[m].initialized => mod'[m] = mod[m]
  <2>1. ModInv(m, mod[m], last_game) /\ MemInv(m, mod[m], mem[m], game, last_game)
    BY DEF MInv, ModsInv
  <2>2. CASE mod[m].initialized
    <3> DEFINE r == [mod[m] EXCEPT !.state = "DISABLED"]
    <3>1. mod'[m] = r /\ mem'[m] = apply_instruction_changes(mod'[m], mem[m])
      BY <2>2 DEF revert_all_code_changes
    <3>2. /\ r.initialized /\ r.state = "DISABLED" /\ r.group = mod[m].group
          /\ r.code_changes = mod[m].code_changes
          /\ r.original_instructions = mod[m].original_instructions
          /\ r.pending_change_backups = mod[m].pending_change_backups
          /\ r.current_active_changes = mod[m].current_active_changes
      BY <2>2 DEF TypeInv, TypeOK, PrimeMod
    <3> HIDE DEF r
    <3>3. last_game = game /\ game \in Games
      BY <1>1, <2>1, <2>2 DEF SeenByMods, ModInv
    <3>4. ReadyFor(m, r, game)
      BY <2>1, <2>2, <3>2, <3>3 DEF ModInv, ReadyFor, SetUpFor, NotBackedUp, BackedUp
    <3>5. ModInv(m, r, game)
      BY <3>2, <3>3, <3>4 DEF ModInv
    <3>6. Clean(apply_instruction_changes(r, mem[m]), game)
      <4>1. CASE BackedUp(m, r, game)
        <5>1. \A w \in Words : mem[m][w] = game
                \/ \E i \in DOMAIN Layout[m][game] : Layout[m][game][i].address = w
          BY <2>1, <3>3 DEF MemInv, Clean
        <5> QED
          BY <3>2, <3>3, <4>1, <5>1, RevertFacts
      <4>2. CASE ~ BackedUp(m, r, game)
        <5>1. NotBackedUp(m, r, game)
          BY <3>4, <4>2 DEF ReadyFor
        <5>2. Clean(mem[m], game)
          BY <2>1, <3>2, <3>3, <4>2 DEF MemInv, Patchable, BackedUp
        <5>3. DOMAIN get_changes_to_apply(r) = {}
          BY <3>2, <5>1 DEF get_changes_to_apply, NotBackedUp
        <5>4. \A w \in Words : apply_instruction_changes(r, mem[m])[w] = mem[m][w]
          BY <5>3 DEF apply_instruction_changes
        <5> QED
          BY <5>2, <5>4 DEF Clean
      <4> QED
        BY <4>1, <4>2
    <3> QED
      BY <2>2, <3>1, <3>2, <3>3, <3>5, <3>6
  <2>3. CASE ~ mod[m].initialized
    <3>1. mod'[m] = mod[m] /\ mem'[m] = mem[m]
      BY <2>3 DEF revert_all_code_changes
    <3> QED
      BY <2>1, <2>3, <3>1 DEF MemInv, Patchable
  <2> QED
    BY <2>2, <2>3
<1>3. UNCHANGED <<game, last_game, mod_state_backup, paused, saved>>
  BY DEF revert_all_code_changes
<1>4. ModsInv'
  BY <1>2, <1>3 DEF ModsInv, MemInv
<1>5. SaverInv'
  BY <1>2, <1>3 DEF MInv, SaverInv
<1>6. SavedClean'
  BY <1>3 DEF MInv, SavedClean
<1> QED
  BY <1>4, <1>5, <1>6 DEF MInv

LEMMA MRestore ==
  ASSUME TypeInv, MInv, NEW s \in Savers, restore_mod_states(s)
  PROVE  MInv'
<1>1. ASSUME NEW m \in Mods
      PROVE  /\ mod'[m].initialized = mod[m].initialized
             /\ ~ mod[m].initialized => mod'[m] = mod[m]
             /\ ModInv(m, mod'[m], last_game)
             /\ MemInv(m, mod'[m], mem[m], game, last_game)
  <2>1. ModInv(m, mod[m], last_game) /\ MemInv(m, mod[m], mem[m], game, last_game)
    BY DEF MInv, ModsInv
  <2>2. CASE mod[m].initialized
    <3> DEFINE r == [mod[m] EXCEPT !.state = mod_state_backup[m]]
    <3>1. mod'[m] = r
      BY <2>2 DEF restore_mod_states
    <3>2. /\ r.initialized /\ r.state = mod_state_backup[m] /\ r.group = mod[m].group
          /\ r.code_changes = mod[m].code_changes
          /\ r.original_instructions = mod[m].original_instructions
          /\ r.pending_change_backups = mod[m].pending_change_backups
          /\ r.current_active_changes = mod[m].current_active_changes
      BY <2>2 DEF TypeInv, TypeOK, PrimeMod
    <3>3. m \in AlwaysOn => mod_state_backup[m] # "CODE_DISABLED"
      BY DEF MInv, SaverInv
    <3> HIDE DEF r
    <3>4. ModInv(m, r, last_game)
      BY <2>1, <2>2, <3>2, <3>3
         DEF ModInv, ReadyFor, SetUpFor, NotBackedUp, BackedUp
    <3>5. MemInv(m, r, mem[m], game, last_game)
      BY <2>1, <2>2, <3>2 DEF MemInv, Patchable, BackedUp
    <3> QED
      BY <2>2, <3>1, <3>2, <3>4, <3>5
  <2>3. CASE ~ mod[m].initialized
    BY <2>1, <2>3 DEF restore_mod_states
  <2> QED
    BY <2>2, <2>3
<1>2. UNCHANGED <<game, mem, last_game, mod_state_backup, paused, saved>>
  BY DEF restore_mod_states
<1>3. ModsInv'
  BY <1>1, <1>2 DEF ModsInv
<1>4. SaverInv'
  <2>1. \A t \in Savers : saver'[t] = "write" => saver[t] = "write"
    BY DEF restore_mod_states, Move, TypeInv, TypeOK
  <2> QED
    BY <1>2, <2>1 DEF MInv, SaverInv
<1>5. SavedClean'
  BY <1>2 DEF MInv, SavedClean
<1> QED
  BY <1>3, <1>4, <1>5 DEF MInv

(* Steps that leave the mods and the memory alone.                          *)
LEMMA MSave ==
  ASSUME TypeInv, MInv, NEW s \in Savers, save_mod_states(s) \/ WriteState(s)
  PROVE  MInv'
<1>1. UNCHANGED <<game, mem, mod, last_game>>
  BY DEF save_mod_states, WriteState
<1>2. ModsInv'
  BY <1>1 DEF MInv, ModsInv
<1>3. \A t \in Savers : saver'[t] = "write" => saver[t] = "write"
  BY DEF save_mod_states, WriteState, Move, TypeInv, TypeOK
<1>4. CASE save_mod_states(s)
  <2>1. (\A m \in Mods : mod_state_backup'[m] = mod[m].state) /\ saved' = saved
    BY <1>4 DEF save_mod_states
  <2>2. \A m \in AlwaysOn : m \in Mods
    BY ModsAssumption
  <2>3. \A m \in AlwaysOn : mod_state_backup'[m] # "CODE_DISABLED"
    BY <2>1, <2>2 DEF MInv, ModsInv, ModInv
  <2>4. SaverInv'
    BY <1>1, <1>3, <2>3 DEF MInv, SaverInv
  <2> QED
    BY <1>2, <2>1, <2>4 DEF MInv, SavedClean
<1>5. CASE WriteState(s)
  <2>1. saver[s] = "write" /\ saved' = [game |-> game, mem |-> mem]
        /\ mod_state_backup' = mod_state_backup
    BY <1>5 DEF WriteState, Move
  <2>2. SaverInv'
    BY <1>1, <1>3, <2>1 DEF MInv, SaverInv
  <2>3. SavedClean'
    BY <2>1 DEF MInv, SaverInv, SavedClean
  <2> QED
    BY <1>2, <2>2, <2>3 DEF MInv
<1> QED
  BY <1>4, <1>5

LEMMA MShutdown ==
  ASSUME TypeInv, MInv, Shutdown
  PROVE  MInv'
<1>1. \A s \in Savers : saver'[s] = "idle"
  BY DEF Shutdown, Idle, host
<1>2. ASSUME NEW m \in Mods
      PROVE  ModInv(m, mod'[m], last_game') /\ Clean(mem'[m], game')
  <2>1. mod'[m] = reset_mod(mod[m]) /\ mod[m] \in PrimeMod
    BY DEF Shutdown, TypeInv, TypeOK
  <2>2. /\ ~ mod'[m].initialized /\ mod'[m].state = mod[m].state
        /\ mod'[m].code_changes = << >> /\ mod'[m].original_instructions = << >>
        /\ mod'[m].pending_change_backups = << >> /\ mod'[m].current_active_changes = << >>
    BY <2>1 DEF reset_mod, PrimeMod
  <2>3. DOMAIN << >> = {}
    OBVIOUS
  <2>4. Untouched(mod'[m])
    BY <2>2, <2>3 DEF Untouched
  <2>5. ModInv(m, mod'[m], last_game')
    BY <2>2, <2>4 DEF ModInv, MInv, ModsInv
  <2>6. Clean(mem'[m], game')
    BY DEF Shutdown, Own, Clean
  <2> QED
    BY <2>5, <2>6
<1>3. ModsInv'
  BY <1>2 DEF ModsInv, MemInv
<1> QED
  BY <1>1, <1>3 DEF Shutdown, host, MInv, SaverInv, SavedClean

(* A disturbance is not forgotten. *)
LEMMA DisturbedStays == ASSUME TypeInv, [Next]_vars, disturbed PROVE disturbed'
<1>1. CASE AnyFrame
  BY <1>1 DEF AnyFrame, Frame
<1>2. ASSUME NEW s \in Savers, SaveAs(s) PROVE disturbed'
  BY <1>2 DEF SaveAs, save_mod_states, revert_all_code_changes, WriteState, restore_mod_states
<1> QED
  BY <1>1, <1>2 DEF Next, vars, LoadGame, Configure, ConfigureGroup, SetPaused, Shutdown, LoadAs

DInv == TypeInv /\ (~ disturbed => MInv)

LEMMA MStep ==
  ASSUME TypeInv, MInv, [Next]_vars, ~ disturbed'
  PROVE  MInv'
<1>1. ASSUME UNCHANGED <<game, mem, mod, last_game, host, saved>> PROVE MInv'
  BY <1>1 DEF host, MInv, ModsInv, SaverInv, SavedClean
<1>2. CASE AnyFrame
  BY <1>2, JunkType, MFrame DEF AnyFrame
<1>3. ASSUME NEW g \in AllGames, LoadGame(g) PROVE MInv'
  <2>2. \A m \in Mods : Clean(mem'[m], game')
    BY <1>3 DEF LoadGame, Own, Clean
  <2>3. ModsInv'
    BY <1>3, <2>2 DEF LoadGame, MInv, ModsInv, MemInv
  <2> QED
    BY <1>3, <2>2, <2>3 DEF LoadGame, host, MInv, SaverInv, SavedClean
<1>4. CASE Configure
  BY <1>1, <1>4 DEF Configure
<1>5. CASE ConfigureGroup
  BY <1>1, <1>5 DEF ConfigureGroup
<1>6. CASE SetPaused
  BY <1>1, <1>6 DEF SetPaused
<1>7. CASE Shutdown
  BY <1>7, MShutdown
<1>8. ASSUME NEW s \in Savers, SaveAs(s) PROVE MInv'
  BY <1>8, MSave, MRevert, MRestore DEF SaveAs
<1>9. CASE LoadAs
  <2>1. \A s \in Savers : saver'[s] = "idle"
    BY <1>9 DEF LoadAs, Idle, host
  <2>2. \A m \in Mods : Clean(mem'[m], game')
    BY <1>9 DEF LoadAs, MInv, SavedClean
  <2>3. ModsInv'
    BY <1>9, <2>2 DEF LoadAs, MInv, ModsInv, MemInv
  <2> QED
    BY <1>9, <2>1, <2>3 DEF LoadAs, host, MInv, SaverInv, SavedClean
<1>10. CASE UNCHANGED vars
  BY <1>1, <1>10 DEF vars
<1> QED
  BY <1>2, <1>3, <1>4, <1>5, <1>6, <1>7, <1>8, <1>9, <1>10 DEF Next

LEMMA DStep == DInv /\ [Next]_vars => DInv'
BY TypeStep, MStep, DisturbedStays DEF DInv

LEMMA DInit == Init => DInv
BY TypeInit, MInit DEF DInv

LEMMA CleanIsOwn ==
  ASSUME NEW m \in Mods, NEW words \in Words2Code, NEW g, Clean(words, g)
  PROVE  words = Own(g)[m]
BY DEF Clean, Own, Words2Code

(* What can bring anything but the game's own instructions into a savestate *)
(* is a frame between reverting and writing, or reverting after another     *)
(* game was loaded that the mods have not seen.  Neither pausing nor the    *)
(* user's switches, a game loaded in between, or other savers can.          *)
THEOREM SavedCorrect == Spec => []SavedUnlessDisturbed
<1>1. DInv => SavedUnlessDisturbed
  <2> SUFFICES ASSUME TypeInv, MInv, saved # NoState PROVE saved.mem = Own(saved.game)
    BY DEF DInv, SavedUnlessDisturbed, SavedIsOriginal
  <2>1. saved.mem \in Memory
    BY DEF TypeInv, TypeOK
  <2>2. \A m \in Mods : saved.mem[m] = Own(saved.game)[m]
    BY <2>1, CleanIsOwn DEF MInv, SavedClean, Memory, Words2Code
  <2> QED
    BY <2>1, <2>2 DEF Memory, Own
<1> QED
  BY <1>1, DInit, DStep, PTL DEF Spec

(* After a frame, a mod that is not enabled has left no instruction behind, *)
(* its own or another game's, until a save is disturbed.                    *)
THEOREM DisabledCorrect == Spec => DisabledIsOriginal
<1>1. TypeInv /\ MInv /\ AnyFrame =>
        \A m \in Mods : mod'[m].state # "ENABLED" => mem'[m] = Own(game)[m]
  <2> SUFFICES ASSUME TypeInv, MInv, NEW control \in BOOLEAN, NEW junk \in Junk,
                      Frame(control, junk), NEW m \in Mods, mod'[m].state # "ENABLED"
               PROVE  mem'[m] = Own(game)[m]
    BY DEF AnyFrame
  <2>1. Clean(mem'[m], game)
    <3>1. CASE game = INVALID_GAME
      BY <3>1, OtherFrameFacts DEF Frame, MInv, ModsInv
    <3>2. CASE game # INVALID_GAME
      <4>1. game \in Games
        BY <3>2 DEF TypeInv, TypeOK, AllGames
      <4> QED
        BY <3>2, <4>1, JunkType, FrameFacts DEF Frame, MInv, ModsInv
    <3> QED
      BY <3>1, <3>2
  <2>2. mem'[m] \in Words2Code
    BY JunkType, FrameType DEF TypeInv, TypeOK, Memory, Words2Code
  <2> QED
    BY <2>1, <2>2, CleanIsOwn
<1>2. DInv /\ [Next]_vars =>
        [~ disturbed /\ AnyFrame =>
           \A m \in Mods : mod'[m].state # "ENABLED" => mem'[m] = Own(game)[m]]_vars
  BY <1>1 DEF DInv
<1> QED
  BY <1>2, DInit, DStep, PTL DEF Spec, DisabledIsOriginal

(* After a frame of a game, the changes of an enabled mod that no group     *)
(* names are in memory, whatever game was there before and however its      *)
(* groups were arranged.  The indices of an earlier game stay in the group, *)
(* and what they name in this game is not spoken of.                        *)
THEOREM EnabledCorrect == Spec => EnabledIsActive
<1>1. TypeInv /\ MInv /\ AnyFrame /\ game \in Games =>
        \A m \in Mods : mod'[m].state = "ENABLED" =>
          \A i \in DOMAIN Layout[m][game] :
            i \notin mod'[m].group => mem'[m][Layout[m][game][i].address] = m
  <2> SUFFICES ASSUME TypeInv, MInv, game \in Games,
                      NEW control \in BOOLEAN, NEW junk \in Junk, Frame(control, junk),
                      NEW m \in Mods, mod'[m].state = "ENABLED",
                      NEW i \in DOMAIN Layout[m][game], i \notin mod'[m].group
               PROVE  mem'[m][Layout[m][game][i].address] = m
    BY DEF AnyFrame
  <2> DEFINE d == RunMod(m, InitAndApply(m, ResetAndUpdate(m)), control, junk)
  <2>1. mod'[m] = d.r /\ mem'[m] = d.words
    BY ModsAssumption DEF Frame
  <2>2. junk \in CodeChange
    BY JunkType
  <2>3. d.r.state = "ENABLED" =>
          \A j \in DOMAIN Layout[m][game] :
            j \notin d.r.group => d.words[Layout[m][game][j].address] = m
    BY <2>2, FrameFacts DEF MInv, ModsInv
  <2> HIDE DEF d
  <2> QED
    BY <2>1, <2>3
<1>2. DInv /\ [Next]_vars =>
        [~ disturbed /\ AnyFrame /\ game \in Games =>
           \A m \in Mods : mod'[m].state = "ENABLED" =>
             \A i \in DOMAIN Layout[m][game] :
               i \notin mod'[m].group => mem'[m][Layout[m][game][i].address] = m]_vars
  BY <1>1 DEF DInv
<1> QED
  BY <1>2, DInit, DStep, PTL DEF Spec, EnabledIsActive

=============================================================================
