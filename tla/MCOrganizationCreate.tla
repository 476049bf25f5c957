----------------------- MODULE MCOrganizationCreate -----------------------
(* Instances of OrganizationCreate for TLC. *)
EXTENDS OrganizationCreate, TLC

\* Keys are named after their length, "..._" is padded with blanks.
MCText == {"key7", "key8", "key8_", "key200", "key201", "key201_",
           "pump", "pump_", "fan", "blank", ""}

MCTrimSpace ==
  [t \in MCText |-> CASE t = "key8_" -> "key8"
                      [] t = "key201_" -> "key201"
                      [] t = "pump_" -> "pump"
                      [] t = "blank" -> ""
                      [] OTHER -> t]

MCLength ==
  [t \in MCText |-> CASE t = "" -> 0
                      [] t \in {"key7", "blank"} -> 7
                      [] t = "key8" -> 8
                      [] t = "key8_" -> 12
                      [] t = "key200" -> 200
                      [] t = "key201" -> 201
                      [] t = "key201_" -> 204
                      [] OTHER -> 4]

MCHashRequest == [t \in MCText |-> <<"sha256", t>>]

\* Contention: one key, two commands that differ only in padding.
OneHeader == {"key8"}
TwoNames == {"pump", "pump_"}

\* Boundaries: keys around both limits, names that trim to the same or to
\* nothing.
BoundaryHeaders == {"key7", "key8", "key8_", "key200", "key201", "key201_"}
BoundaryNames == {"pump", "pump_", "blank"}

BoundarySymmetry == Permutations(Requests) \cup Permutations(Principals)
=============================================================================
