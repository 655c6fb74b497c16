----------------------------- MODULE DjedOracle -----------------------------
(***************************************************************************)
(* A Djed oracle output (price/djed/oracle.go).  Its datum is a record: a  *)
(* validity interval, with the inclusivity of its ends, and the defects of *)
(* the datum and of the value at the output.                               *)
(***************************************************************************)
EXTENDS Integers

\* What makes ParseOracleDatum and ValidateMainnet fail.
DatumDefects == {"constructor", "field", "bound"}
IdentityDefects == {"address", "nft", "signature", "policy", "quote", "rate"}

\* Why a price cannot be used at time t, or "valid".
ValidateInterval(d, t) ==
    IF \/ d.from > d.until
       \/ d.from = d.until /\ ~(d.fromInclusive /\ d.untilInclusive)
    THEN "invalid_interval"
    ELSE IF t < d.from \/ (t = d.from /\ ~d.fromInclusive) THEN "not_yet_valid"
    ELSE IF t > d.until \/ (t = d.until /\ ~d.untilInclusive) THEN "expired"
    ELSE "valid"

ParseOracleDatum(d) == d.defects \cap DatumDefects = {}
ValidateMainnet(d, t) ==
    d.defects \cap IdentityDefects = {} /\ ValidateInterval(d, t) = "valid"
ParseMainnetObservation(d, t) == ParseOracleDatum(d) /\ ValidateMainnet(d, t)
=============================================================================
