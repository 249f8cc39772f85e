--------------------------- MODULE StorageReader ---------------------------
(***************************************************************************)
(* What Page Hub makes of the answers of storage (internal/storage): the   *)
(* errors of the three read requests (reader.go), the status of the        *)
(* connectivity check (s3.go), and the outcome the refresh of an operator  *)
(* comes to (internal/observe/service.go).  Both the check and the reader  *)
(* classify a status, each in its own code.                                *)
(*                                                                         *)
(* An answer is a status and how its body arrived.  The contents of a      *)
(* listing and of an object are the business of module Scan.               *)
(*                                                                         *)
(* Not covered: the signature of a request, and the URL it is sent to.     *)
(***************************************************************************)
EXTENDS Naturals

CONSTANT Statuses       \* the HTTP statuses storage answers with

ASSUME StatusAssumption == Statuses \subseteq 100..599

\* Endpoint, bucket or credentials cannot make a request: bucketURL or
\* signRequest refuses.
Unsent == [status |-> 0, body |-> "unsent"]

\* No answer: refused, timed out, cancelled.
NoAnswer == [status |-> 0, body |-> "none"]

\* The body of a success arrives, breaks off, or is not what was asked for; what
\* comes with any other status is not looked at.
Answers ==
    {Unsent, NoAnswer}
    \cup [status : Statuses \ {200}, body : {"whole"}]
    \cup [status : Statuses \cap {200}, body : {"whole", "cut", "garbled"}]

\* Faulty variant of ClassifyStatus: only 5xx is the server's failure.
ClassifyStatus_ServerOnly(status) ==
    IF status = 404 THEN "not_found"
    ELSE IF status >= 500 THEN "unavailable"
    ELSE "misconfigured"

\* classifyStatus
ClassifyStatus(status) ==
    IF status = 404 THEN "not_found"
    ELSE IF status \in {408, 429} \/ status >= 500 THEN "unavailable"
    ELSE "misconfigured"

\* The error of a request that got no status.
NotServed(a) == IF a = Unsent THEN "misconfigured" ELSE "unavailable"

\* ListObjects: the status is classified also when it is the body that failed;
\* a listing that is no XML is an error of no kind.
ListError(a) ==
    IF a.status = 0 THEN NotServed(a)
    ELSE IF a.status # 200 \/ a.body = "cut" THEN ClassifyStatus(a.status)
    ELSE IF a.body = "garbled" THEN "other" ELSE "none"

\* StatObject, a HEAD: there is no body to fail.
StatError(a) ==
    IF a.status = 0 THEN NotServed(a)
    ELSE IF a.status # 200 THEN ClassifyStatus(a.status) ELSE "none"

\* ReadObject; any body is an object.
ReadError(a) ==
    IF a.status = 0 THEN NotServed(a)
    ELSE IF a.status # 200 THEN ClassifyStatus(a.status)
    ELSE IF a.body = "cut" THEN "unavailable" ELSE "none"

\* OutcomeOf
OutcomeOf(error) ==
    CASE error = "none" -> "succeeded"
      [] error \in {"unavailable", "misconfigured"} -> error
      [] OTHER -> "failed"

\* S3Checker.Check, a HEAD of the bucket, with the settings read beforehand.
Check(a) ==
    IF a = Unsent THEN "misconfigured"
    ELSE IF a = NoAnswer THEN "unavailable"
    ELSE IF a.status \in 200..299 THEN "reachable"
    ELSE IF a.status \in {408, 429} \/ a.status >= 500 THEN "unavailable"
    ELSE "misconfigured"

=============================================================================
