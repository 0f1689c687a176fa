---------------------------- MODULE ListHelpers ----------------------------
(***************************************************************************)
(* The two functions on lists of strings that the controller manages its   *)
(* finalizer with (src/controllers/util/list.go).                          *)
(*                                                                         *)
(* RemoveString deletes from the slice it ranges over: range has fixed the *)
(* array and its length at the start, append shifts the rest of the array  *)
(* in place and only shortens the slice.  So the loop goes on reading the  *)
(* shifted array, its stale tail included.                                 *)
(***************************************************************************)
EXTENDS Integers, Sequences

ContainsString(list, s) == \E i \in 1..Len(list) : list[i] = s

\* append(list[:i], list[i+1:]...) in an array of which the first len elements are the
\* slice; list[i+1:] panics when the slice ends before i.
Shift(slice, i) ==
    IF i > slice.len THEN [slice EXCEPT !.panics = TRUE]
    ELSE [slice EXCEPT !.len = @ - 1,
                       !.array = [j \in DOMAIN @ |->
                                    IF j \in i..(slice.len - 1) THEN @[j + 1] ELSE @[j]]]

\* The slice after the loop over its first elements.
RemovalLoop(list, s) ==
    LET after[i \in 0..Len(list)] ==
          IF i = 0 THEN [array |-> list, len |-> Len(list), panics |-> FALSE]
          ELSE LET slice == after[i - 1] IN
               IF slice.panics \/ slice.array[i] # s THEN slice ELSE Shift(slice, i)
    IN  after[Len(list)]

RemovalPanics(list, s) == RemovalLoop(list, s).panics

RemoveString(list, s) == LET slice == RemovalLoop(list, s) IN SubSeq(slice.array, 1, slice.len)
=============================================================================
