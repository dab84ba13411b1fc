----------------------------- MODULE SkillNames -----------------------------
(***************************************************************************)
(* resolve_names of tools/skill-import.py: every skill gets a published    *)
(* name of its own, in the order of the sources in skill-sources.toml.     *)
(* A name is the sequence of its dash-separated parts.                     *)
(***************************************************************************)
EXTENDS Naturals, Sequences, SequencesExt

CONSTANTS
    Prefix,  \* collision prefix of each source, a name
    MaxParts \* bound on the length of a name; 64 characters in the code

Candidate(skill) == Prefix[skill.source] \o skill.name

\* Mutant: the prefixed name is not looked up.
ClaimUnchecked(state, skill) ==
    LET collides == skill.name \in ToSet(state.names)
        name == IF collides THEN Candidate(skill) ELSE skill.name
    IN  IF state.failed \/ (collides /\ Len(name) > MaxParts)
        THEN [state EXCEPT !.failed = TRUE]
        ELSE [state EXCEPT !.names = Append(@, name)]

(* One round of the loop: the bare name if it is free, else the prefixed    *)
(* one, which must be short enough and free.                                *)
Claim(state, skill) ==
    LET collides == skill.name \in ToSet(state.names)
        name == IF collides THEN Candidate(skill) ELSE skill.name
    IN  IF \/ state.failed
           \/ collides /\ (Len(name) > MaxParts \/ name \in ToSet(state.names))
        THEN [state EXCEPT !.failed = TRUE]
        ELSE [state EXCEPT !.names = Append(@, name)]

(* The published names of a sequence of skills, in its order. *)
ResolveNames(skills) == FoldLeft(Claim, [names |-> <<>>, failed |-> FALSE], skills)
=============================================================================
