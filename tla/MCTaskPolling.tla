----------------------------- MODULE MCTaskPolling -----------------------------
(***************************************************************************)
(* Instances of TaskPolling for TLC.                                       *)
(***************************************************************************)
EXTENDS TaskPolling, TLC

CONSTANTS p1, p2, f1

OneVideo  == 1 :> "video"
OneGemini == 1 :> "gemini"
OneSuno   == 1 :> "suno"
SunoGemini == 1 :> "suno" @@ 2 :> "gemini"

A(status, failReason, complete) ==
    [status |-> status, failReason |-> failReason, complete |-> complete]

\* Answers of a well-behaved upstream: complete only when it is done
PlainAnswers == {A("IN_PROGRESS", FALSE, FALSE), A("SUCCESS", FALSE, TRUE),
                 A("FAILURE", TRUE, TRUE)}

\* And a task in progress at 100% and with a reason, which updateSunoTasks takes for
\* a failure
LooseAnswers == PlainAnswers \cup {A("IN_PROGRESS", TRUE, TRUE)}

\* Any answer, among them a failure reason with a status that is no failure
AllAnswers == Answer

PollerSymmetry == Permutations(Pollers)
===============================================================================
