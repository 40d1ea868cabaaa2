---------------------------- MODULE MCExplanation ----------------------------
(***************************************************************************)
(* Names for Explanation on both sides of every heuristic: an abused       *)
(* top-level domain in two spellings and another one, values on both sides *)
(* of the thresholds, and no marks or all of them.  Settings: to enforce,  *)
(* to measure, and to enforce with a threshold that every score reaches.   *)
(***************************************************************************)
EXTENDS Explanation

Random == [entropy |-> 351, length |-> 31, marks |-> Marks]

Long == [entropy |-> 401, length |-> 51, marks |-> {"hex_label"}]

Plain == [entropy |-> 350, length |-> 30, marks |-> {}]

Name(tld, profile) ==
    [tld |-> tld, entropy |-> profile.entropy, length |-> profile.length,
     marks |-> profile.marks]

MixedNames ==
    {Name("xyz", Random), Name("XYZ", Random), Name("xyz", Long), Name("org", Plain)}

LowerTld == [t \in {"xyz", "XYZ", "org"} |-> IF t = "XYZ" THEN "xyz" ELSE t]

SomeSettings ==
    {[enforce |-> TRUE,  threshold |-> 84],
     [enforce |-> FALSE, threshold |-> 84],
     [enforce |-> TRUE,  threshold |-> 0]}

==============================================================================
