-------------------------- MODULE MCSmallPrograms ---------------------------
(***************************************************************************)
(* An instance of SmallPrograms for TLC.                                    *)
(***************************************************************************)
EXTENDS SmallPrograms, TLC

\* The mains of sharing_data.rs, logging.rs and coroutine_test.rs.
Futures == {"inc", "dec"}
Counts == {"countInc", "countDec"}
Writers == {"one", "two", "three"}
Coroutines == {"first", "second"}

AllLockMains == {Futures, Counts, Writers, Coroutines}
KindOf == [t \in UNION AllLockMains |->
             CASE t \in Futures -> "future" [] t \in Counts -> "count"
               [] t \in Writers -> "write" [] OTHER -> "coroutine"]
TimesOf == [t \in UNION AllLockMains |->
             CASE t \in Writers -> 1 [] t \in Coroutines -> 2 [] OTHER -> 3]
DeltaOf == [t \in UNION AllLockMains |-> IF t \in {"dec", "countDec"} THEN -1 ELSE 1]

\* Lines of one, one and two pieces: two fill the BufWriter, the third is as long as
\* it, or, if the peer ends before its last piece, pushes them out.
LineEnds == {1, 2, 4}

\* The last line of one peer is not text.
NotText == {<<"peer2", 4>>}
=============================================================================
