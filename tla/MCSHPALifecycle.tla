-------------------------- MODULE MCSHPALifecycle --------------------------
(* Small instances of SHPALifecycle for TLC. *)
EXTENDS SHPALifecycle

MCMetric(low, high) ==
    [type |-> "External", source |-> TRUE, marks |-> TRUE, selector |-> TRUE,
     low |-> low, high |-> high]

MCSpec(min, max, unset, metrics) ==
    [target |-> "resolved", MinReplicas |-> min, MaxReplicas |-> max, unset |-> unset,
     metrics |-> metrics]

MCPartial == MCSpec(0, 2, {"Tolerance"}, <<MCMetric(1, 2)>>)
MCEmptyRange == MCSpec(0, 0, {}, <<>>)
MCCrossed == MCSpec(1, 2, {}, <<MCMetric(1, 2), MCMetric(2, 1)>>)
MCComplete == MCSpec(1, 2, {}, <<MCMetric(1, 1)>>)
MCDangling == [MCComplete EXCEPT !.target = "dangling"]

MCSpecs == {MCPartial, MCEmptyRange, MCCrossed, MCComplete, MCDangling}
MCValidSpecs == {MCPartial, MCComplete}
MCLists == {<<>>, <<shpaFinalizer, "other">>}
MCNoList == {<<>>}

\* RemoveString removes a finalizer that is listed once, wherever it is, and keeps the
\* order of the others.
MCNames == {"a", "b", "s"}
ASSUME \A n \in 0..4 : \A list \in [1..n -> MCNames] :
    LET Other(f) == f # "s"
        kept == SelectSeq(list, Other)
    IN  Len(kept) >= n - 1 => /\ ~RemovalPanics(list, "s")
                              /\ RemoveString(list, "s") = kept

\* Of two neighbours one stays, and a match in the stale tail runs off the end.
ASSUME RemoveString(<<"s", "s", "a">>, "s") = <<"s", "a">>
ASSUME RemovalPanics(<<"s", "s">>, "s") /\ RemovalPanics(<<"s", "a", "s">>, "s")
=============================================================================
