-------------------------- MODULE MCSkillPublish --------------------------
(* Two tags, three names of which a release holds two, two digests; plans   *)
(* of one and two releases, and one that repeats a tag and a name; the      *)
(* commit being published names an archive of either tag.  Files are as     *)
(* planned, or one is missing and one is another.                           *)
EXTENDS SkillPublish

CONSTANTS t1, t2, n1, n2, n3, d1, d2

File(n, d) == [path |-> n, sha256 |-> d]
Rel(t, assets) == [tag |-> t, assets |-> assets]

MCPlans ==
    { <<Rel(t1, <<File(n1, d1), File(n2, d1)>>)>>,
      <<Rel(t1, <<File(n1, d1)>>), Rel(t2, <<File(n2, d1)>>)>>,
      <<Rel(t1, <<File(n1, d1)>>), Rel(t1, <<File(n2, d1), File(n2, d1)>>)>> }

MCDisks ==
    {[n \in Name |-> d1], [n \in Name |-> IF n = n1 THEN d2 ELSE NoFile]}

MCURLs == <<<<t1, n1>>, <<t2, n2>>>>
=============================================================================
