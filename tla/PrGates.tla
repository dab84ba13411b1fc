------------------------------ MODULE PrGates ------------------------------
(***************************************************************************)
(* The reserved-shim gate on a pull request: validate.yml checks the       *)
(* request's merge commit out, fetches main and runs                       *)
(* tools/check_reserved_shims.py, which contributors also run on a clone   *)
(* of their own.  What the tool can compare depends on the history that    *)
(* the checkout holds.                                                     *)
(***************************************************************************)
EXTENDS Naturals, Sequences, FiniteSetsExt

CONSTANTS
    Package,
    MaxVersion, \* bound: versions of a package
    Name,       \* shim names
    Reserved,   \* those no package may gain
    MaxMain,    \* bound: commits on main
    NoFile, NoCheckout

VARIABLES
    main,     \* the trees of main's commits
    pr,       \* the pull request: the commit it branched from, and its tree
    checkout, \* where the gate runs, the main commits in the history, the tree
    base,     \* the commit origin/main names there; 0 before the fetch
    verdict

vars == <<main, pr, checkout, base, verdict>>

(* A manifest is the set of shim names its bin claims. *)
File == Package \X (1..MaxVersion)
Tree == [File -> (SUBSET Name) \cup {NoFile}]

Names(manifest) == IF manifest = NoFile THEN {} ELSE manifest
PackageNames(tree, p) == UNION {Names(tree[<<p, v>>]) : v \in 1..MaxVersion}

Init ==
    /\ main \in {<<tree>> : tree \in Tree}
    /\ pr \in [from : {1}, tree : Tree] /\ pr.tree # main[1]
    /\ checkout = NoCheckout /\ base = 0 /\ verdict = "none"

(* Another pull request is merged. *)
MainMoves(f, names) ==
    /\ Len(main) < MaxMain
    /\ main' = Append(main, [main[Len(main)] EXCEPT ![f] = names])
    /\ UNCHANGED <<pr, checkout, base, verdict>>

(* The merge commit GitHub makes when the two do not conflict. *)
Merged ==
    LET tip == main[Len(main)] old == main[pr.from] IN
    [f \in File |-> IF pr.tree[f] = old[f] THEN tip[f] ELSE pr.tree[f]]

Conflicts ==
    LET tip == main[Len(main)] old == main[pr.from] IN
    \E f \in File : pr.tree[f] # old[f] /\ tip[f] # old[f] /\ pr.tree[f] # tip[f]

(* actions/checkout with its default depth: the merge commit alone. *)
CheckoutCI ==
    /\ checkout = NoCheckout /\ ~Conflicts
    /\ checkout' = [where |-> "ci", history |-> {}, tree |-> Merged]
    /\ UNCHANGED <<main, pr, base, verdict>>

(* A clone has the branch and all that it was made from. *)
CheckoutClone ==
    /\ checkout = NoCheckout
    /\ checkout' = [where |-> "clone", history |-> 1..pr.from, tree |-> pr.tree]
    /\ UNCHANGED <<main, pr, base, verdict>>

(* git fetch origin main; a contributor may have fetched earlier. *)
FetchMain ==
    /\ checkout # NoCheckout /\ base = 0
    /\ base' \in IF checkout.where = "ci" THEN {Len(main)} ELSE pr.from..Len(main)
    /\ UNCHANGED <<main, pr, checkout, verdict>>

(* git diff base...: against the newest common commit; without one, an error. *)
Common == checkout.history \cap 1..base
Changed == {f \in File : main[Max(Common)][f] # checkout.tree[f]}

(* Compared with the base itself, in which a new file has no names; a file  *)
(* the pull request deletes cannot be read.                                *)
Gained(f) == (Names(checkout.tree[f]) \ Names(main[base][f])) \cap Reserved

Gate ==
    /\ checkout # NoCheckout /\ base # 0 /\ verdict = "none"
    /\ verdict' = IF /\ Common # {}
                     /\ \A f \in Changed : checkout.tree[f] # NoFile /\ Gained(f) = {}
                  THEN "pass" ELSE "fail"
    /\ UNCHANGED <<main, pr, checkout, base>>

Next ==
    \/ CheckoutCI \/ CheckoutClone \/ FetchMain \/ Gate
    \/ \E f \in File, names \in (SUBSET Name) \cup {NoFile} : MainMoves(f, names)

Spec == Init /\ [][Next]_vars

-----------------------------------------------------------------------------
(* A package that already had a reserved name may keep it: the gate fails   *)
(* only a pull request that gives a package a reserved name it did not have *)
(* (check_reserved_shims.py, module docstring).                             *)
NamesMayBeKept ==
    verdict = "fail" => \E p \in Package :
        (PackageNames(checkout.tree, p) \ PackageNames(main[base], p)) \cap Reserved # {}
=============================================================================
