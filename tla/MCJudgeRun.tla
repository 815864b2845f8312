----------------------------- MODULE MCJudgeRun -----------------------------
(* Instances of JudgeRun.                                                  *)
EXTENDS JudgeRun

\* A third test would be too long to send.
MCExpected == <<<<"a", "LF", "b", "LF">>, <<"a", "LF", "b">>, <<"a">>>>

MCOutputs == {<<"a", "CR", "LF", "b", "SP">>, <<"a", "CR", "LF", "LF", "b">>}

MCFailures == {[exit_code |-> 1, exception |-> "MemoryError"]}

MCLanguage == <<"python", "cpp">>

\* Bound of the run: an edit and a fault come together only while one thread at
\* most is judging.
EditOrFaultOrAlone ==
    edits + faults <= 1 \/ \E h \in Threads : pc[h] \in {"idle", "done"}

=============================================================================
