--------------------------- MODULE MCSpanPipeline ---------------------------
(***************************************************************************)
(* Small instances of SpanPipeline: which spans the agents emit.           *)
(***************************************************************************)
EXTENDS SpanPipeline, TLC

CONSTANTS t1, t2

O(k, c, s) == [kind |-> k, cost |-> c, status |-> s]

MCTraces == {t1, t2}

\* Every kind of span: steps that fail, calls that cost, and roots.
MCOffers == {O("micro", 0, "error"), O("call", 1, "ok"), O("root", 0, "ok")}
=============================================================================
