------------------------------ MODULE Assignment ------------------------------
(***************************************************************************)
(* What the executor makes of the assignment of a value to a field          *)
(* (decode in executor.rs), by the embedded schema.                         *)
(***************************************************************************)
EXTENDS Observation

\* Mutant: a number is cut to 32 bits.
AsU32Truncated(n) == [n |-> n % (U32Max + 1), fits |-> TRUE]

AsU32(n) == [n |-> n, fits |-> n <= U32Max]

\* The MTU a message would carry is checked by the schema once more.
MtuAllowed(n) ==
  ValidateWritable(EmbeddedRegistry,
    [NewState(Kernel) EXCEPT !.fields = <<Entry("mtu", U64(n))>>]) = {}

\* "write" and what is written, "readonly", or "unsupported".  A path without
\* a fragment is one of the base fragment.
DecodeAssignment(fragment, path, value) ==
  LET info == FieldInfo(EmbeddedRegistry, fragment, path)
      mtu == AsU32(value.u64)
  IN  IF info = {} THEN [does |-> "unsupported"]
      ELSE IF \A f \in info : ~f.writable THEN [does |-> "readonly"]
      ELSE IF fragment = "base" /\ path = <<"mtu">> /\ Is(value, "u64")
              /\ mtu.fits /\ MtuAllowed(mtu.n)
           THEN [does |-> "write", value |-> U64(mtu.n)]
      ELSE IF fragment = "base" /\ path = <<"enabled">> /\ Is(value, "bool")
           THEN [does |-> "write", value |-> value]
      ELSE [does |-> "unsupported"]
=============================================================================
