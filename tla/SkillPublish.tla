---------------------------- MODULE SkillPublish ----------------------------
(***************************************************************************)
(* skill-sync uploads archives while a publish run checks that those of    *)
(* the commit it signs can be downloaded: the archive publisher and the    *)
(* preflight, over one set of releases.                                    *)
(***************************************************************************)
EXTENDS SkillArchives

CONSTANTS
    URLs, \* the archives of the commit, each a tag and a name
    NoURL

ASSUME CommitAssumption ==
    /\ URLs \in Seq(Tag \X Name) /\ NoURL \notin Tag \X Name
    /\ \A i, j \in DOMAIN URLs : URLs[i] = URLs[j] => i = j

VARIABLES todo, url, answers, failed, verdict \* the preflight

checkVars == <<todo, url, answers, failed, verdict>>
publishVars == <<vars, checkVars>>

(* Downloads find finished uploads on public releases. *)
Downloadable ==
    {u \in {URLs[i] : i \in DOMAIN URLs} :
        remote[u[1]].state = "public" /\ remote[u[1]].assets[u[2]] \in Digest}

Preflight == INSTANCE Preflight WITH present <- Downloadable

PublishInit == Init /\ Preflight!Init

Archive(step) == step /\ UNCHANGED checkVars

PublishNext ==
    \/ Archive(Next)
    \/ UNCHANGED vars /\ Preflight!Check

(* The fairness of SkillArchives; the preflight may stop anywhere. *)
PublishSpec ==
    /\ PublishInit /\ [][PublishNext]_publishVars
    /\ WF_publishVars(Archive(RunStep))

-----------------------------------------------------------------------------
PublishTypeOK == TypeOK /\ Preflight!TypeOK

(* The index is signed only when every archive it names can be downloaded,  *)
(* then and ever after, whatever is uploaded or cleaned up between its      *)
(* requests; it is refused only for a URL whose last request failed.        *)
VerdictIsFounded == Preflight!VerdictIsFounded

(* A server error never fails the publish on the first pass (comment: a     *)
(* hiccup must not fail the whole publish).                                 *)
ServerErrorIsRetried == Preflight!ServerErrorIsRetried
=============================================================================
