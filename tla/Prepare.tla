------------------------------- MODULE Prepare -------------------------------
(***************************************************************************)
(* Apply preparation (apply.rs): observed states become states to apply.    *)
(* One invalid state refuses them all.                                      *)
(***************************************************************************)
EXTENDS Codec

\* A kernel state that shows what was observed is matched afresh.
Observed(reg, state) ==
  /\ state.source = Kernel
  /\ \/ state.device_type # ""
     \/ \E k \in Keys(state.fields) : \E f \in FieldInfo(reg, "base", <<k>>) : ~f.writable
\* Mutant: the match of the query stays.
MatchStays(reg, state) == state

Unmatched(reg, state) ==
  IF Observed(reg, state) THEN [state EXCEPT !.match = NoMatch] ELSE state

\* States without a match are query results: what they say may be read-only.
InputViolations(reg, states) ==
  UNION {IF states[i].match = NoMatch THEN Validate(reg, states[i])
         ELSE ValidateWritable(reg, states[i]) : i \in DOMAIN states}
FinalViolations(reg, states) ==
  UNION {ValidateWritable(reg, states[i]) : i \in DOMAIN states}

\* Mutant: the device type stays with the state.
MatchTypeKept(state) == state

\* The device type becomes a constraint of the match.
MatchType(state) ==
  IF state.device_type = "" THEN state
  ELSE [state EXCEPT !.match = Constrained(@, "type", state.device_type), !.device_type = ""]

\* Mutant: whatever selects is taken for a name.
SelectedByName(state, by) == Matching("name", Display(At(state.fields, by)))

Selected(state, by) == Matching(by, Display(At(state.fields, by)))

Prepared(state, by, stripped) ==
  [state |-> MatchType([state EXCEPT !.match = Selected(state, by), !.fields = stripped.left]),
   warnings |-> stripped.removed]

\* One state and its warnings; by is the field that selects the device.
PrepareState(reg, state, by) ==
  IF state.match # NoMatch THEN [state |-> state, warnings |-> <<>>]
  ELSE IF by \notin Keys(state.fields) THEN Err("NoMatchField")
  ELSE Prepared(state, by, RemoveReadOnlyFields(reg, Without(state.fields, by)))

\* Mutant: a field that an earlier state lost as well is not warned about.
AllPreparedOnce(reg, made) ==
  IF FinalViolations(reg, [i \in DOMAIN made |-> made[i].state]) # {} THEN Err("Validation")
  ELSE [states |-> Listed([i \in DOMAIN made |-> made[i].state]),
        warnings |-> FlattenSeq([i \in DOMAIN made |->
          SelectSeq(made[i].warnings, LAMBDA w :
            \A j \in 1 .. i - 1 : w \notin ToSet(made[j].warnings))])]

\* All of them, if they may be written.
AllPrepared(reg, made) ==
  IF FinalViolations(reg, [i \in DOMAIN made |-> made[i].state]) # {} THEN Err("Validation")
  ELSE [states |-> Listed([i \in DOMAIN made |-> made[i].state]),
        warnings |-> FlattenSeq([i \in DOMAIN made |-> made[i].warnings])]

PrepareFresh(reg, fresh, by) ==
  IF InputViolations(reg, fresh) # {} THEN Err("Validation")
  ELSE ThenAll([i \in DOMAIN fresh |-> PrepareState(reg, fresh[i], by)],
               LAMBDA made : AllPrepared(reg, made))

PrepareForApply(reg, states, by) ==
  PrepareFresh(reg, Listed([i \in DOMAIN states |-> Unmatched(reg, states[i])]), by)
=============================================================================
