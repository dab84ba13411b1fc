----------------------------- MODULE Preflight -----------------------------
(***************************************************************************)
(* The preflight of the sign job (publish.yml): a HEAD request for every   *)
(* skill archive URL of the commit's manifests, repeated once for          *)
(* transient failures; one URL that does not end in a 2xx fails the job    *)
(* and with it the publish.  A pass is one curl call, its --retry included.*)
(***************************************************************************)
EXTENDS Naturals, Sequences

CONSTANTS
    URLs, \* skill-urls.txt: the sorted archive URLs, none twice
    NoURL

URL == {URLs[i] : i \in DOMAIN URLs}

VARIABLES
    present,  \* archives the releases hold
    todo,     \* the lines of skill-urls.txt not read yet
    url,      \* URL being checked, or NoURL
    answers,  \* what the passes over that URL ended with
    failed,   \* the URLs an error was reported for, with their answers
    verdict

checkVars == <<todo, url, answers, failed, verdict>>
vars == <<present, checkVars>>

(* The class of the last status line, or none: no connection, a timeout. *)
Answer == {"2xx", "4xx", "5xx", "none"}
Answers == {<<a>> : a \in Answer} \cup (Answer \X Answer)

(* An archive that is missing never answers 2xx, one that is there never    *)
(* 4xx; either can hit a server error or get no answer at all.              *)
Possible(u) == IF u \in present THEN Answer \ {"4xx"} ELSE Answer \ {"2xx"}

(* What $(curl -w '%{http_code}' ... || echo 000) captures: curl prints 000 *)
(* itself when nothing answered, and then fails, so echo appends another.   *)
Code(answer) == IF answer = "none" THEN <<"000", "000">> ELSE <<answer>>

Init ==
    /\ present \in SUBSET URL
    /\ todo = URLs
    /\ url = NoURL /\ answers = <<>> /\ failed = {} /\ verdict = "none"

NextURL ==
    /\ url = NoURL /\ todo # <<>>
    /\ url' = Head(todo) /\ todo' = Tail(todo)
    /\ UNCHANGED <<present, answers, failed, verdict>>

(* One error is reported for a URL, and failed=1 stays set. *)
Settle(passes) ==
    /\ failed' = IF Code(passes[Len(passes)]) = <<"2xx">> THEN failed
                 ELSE failed \cup {[url |-> url, answers |-> passes]}
    /\ url' = NoURL /\ answers' = <<>>

\* Mutant: a server error is reported at once.
FirstPassOnly ==
    /\ url # NoURL /\ answers = <<>>
    /\ \E a \in Possible(url) : Settle(<<a>>)
    /\ UNCHANGED <<present, todo, verdict>>

FirstPass ==
    /\ url # NoURL /\ answers = <<>>
    /\ \E a \in Possible(url) :
          IF Code(a) \in {<<"5xx">>, <<"000">>}
            THEN answers' = <<a>> /\ UNCHANGED <<url, failed>>
            ELSE Settle(<<a>>)
    /\ UNCHANGED <<present, todo, verdict>>

\* Mutant: the second pass forgets to set failed=1.
SecondPassLenient ==
    /\ url # NoURL /\ answers # <<>>
    /\ url' = NoURL /\ answers' = <<>>
    /\ UNCHANGED <<present, todo, failed, verdict>>

SecondPass ==
    /\ url # NoURL /\ answers # <<>>
    /\ \E a \in Possible(url) : Settle(Append(answers, a))
    /\ UNCHANGED <<present, todo, verdict>>

Decide ==
    /\ url = NoURL /\ todo = <<>> /\ verdict = "none"
    /\ verdict' = IF failed = {} THEN "sign" ELSE "fail"
    /\ UNCHANGED <<present, todo, url, answers, failed>>

(* Meanwhile skill-sync or a maintainer may upload a missing archive. *)
UploadArchive ==
    /\ \E u \in URL \ present : present' = present \cup {u}
    /\ UNCHANGED checkVars

Check == NextURL \/ FirstPass \/ SecondPass \/ Decide

Next == Check \/ UploadArchive

Spec == Init /\ [][Next]_vars

-----------------------------------------------------------------------------
(* The URLs whose check has ended. *)
Settled == URL \ ({todo[i] : i \in DOMAIN todo} \cup {url})

(* Among the types: only a URL whose check has ended fails, once. *)
TypeOK ==
    /\ present \subseteq URL /\ todo \in Seq(URL) /\ url \in URL \cup {NoURL}
    /\ answers \in {<<>>} \cup {<<a>> : a \in Answer} /\ (url = NoURL => answers = <<>>)
    /\ failed \subseteq [url : Settled, answers : Answers]
    /\ \A f, g \in failed : f.url = g.url => f = g
    /\ verdict \in {"none", "sign", "fail"}

(* The index is signed only when every URL is downloadable, and refused     *)
(* only for a URL whose last request failed.                                *)
VerdictIsFounded ==
    /\ verdict = "sign" => Settled \subseteq present
    /\ \A f \in failed : f.answers[Len(f.answers)] # "2xx"

(* A server error never fails the publish on the first pass (comment: a     *)
(* hiccup must not fail the whole publish).                                 *)
ServerErrorIsRetried ==
    \A f \in failed : f.answers[1] = "5xx" => Len(f.answers) = 2

(* Nor does a request that got no answer: the branch 5*|000 promises one    *)
(* more explicit pass for both.                                             *)
NoAnswerIsRetried ==
    \A f \in failed : f.answers[1] = "none" => Len(f.answers) = 2
=============================================================================
