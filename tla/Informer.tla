------------------------------ MODULE Informer ------------------------------
(***************************************************************************)
(* One Kubernetes object as the operator sees it.                          *)
(*                                                                         *)
(* Every reconciler of the operator reads with mgr.GetClient(), that is    *)
(* from an informer cache, and writes to the API server.  The object is    *)
(* therefore modelled as the non-empty sequence of the values it had since *)
(* the one the cache holds: the first element is what a Get or a List      *)
(* returns, the last one is what the API server stores, and those between  *)
(* are watch events that are still under way.                              *)
(***************************************************************************)
EXTENDS Integers, Sequences

\* The histories of an object with values in S.
Hist(S) == Seq(S) \ {<<>>}

\* The value a Get or a List of the cached client returns.
Cached(h) == Head(h)

\* The value the API server holds.
Stored(h) == h[Len(h)]

\* A request that leaves the object as it is makes no new resource version,
\* and no watch event either.
Write(h, v) == IF v = Stored(h) THEN h ELSE Append(h, v)

\* The cache holds what the API server holds.
InSync(h) == Len(h) = 1

\* The informer applies the next watch event to the cache ...
Advance(h) == Tail(h)

\* ... or, after a broken watch, lists the object again and skips the events.
Relisted(h) == <<Stored(h)>>
=============================================================================
