------------------------------ MODULE MCIngest ------------------------------
(* Any two of three files: one with two good records; one with the same records
   in the opposite order, the last in a currency the account does not have; and
   one that must be refused after its first record was drafted. *)
EXTENDS Ingest, TLC

CONSTANTS p1, p2, w1, w2

R(p, k) == [hash |-> p, kind |-> k]

MCRecords == <<
  <<R(p1, "ok"), R(p2, "ok")>>,
  <<R(p2, "ok"), R(p1, "zero"), R(p1, "foreign")>>,
  <<R(p2, "ok"), R(p1, "malformed")>> >>

MCHash == {p1, p2}
MCWorker == {w1, w2}
=============================================================================
