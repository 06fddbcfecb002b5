------------------------------ MODULE ConfigTree ------------------------------
(***************************************************************************)
(* Nested dictionaries of settings, and _set_nested, which changes them.   *)
(*                                                                         *)
(* A dictionary is the function that gives, for the path of every entry    *)
(* in it, what is there: Folder for a dictionary, else the value.  The     *)
(* empty path is the dictionary itself.  A value that is no dictionary is  *)
(* a function of the empty path.                                           *)
(***************************************************************************)
EXTENDS Integers, Sequences

Folder == [dict |-> TRUE]
Leaf(node) == [p \in {<<>>} |-> node]
EmptyDict == Leaf(Folder)

Prefix(p, q) == Len(p) <= Len(q) /\ \A i \in DOMAIN p : p[i] = q[i]
Related(p, q) == Prefix(p, q) \/ Prefix(q, p)
Suffix(p, q) == SubSeq(q, Len(p) + 1, Len(q))

\* Whatever has entries is a dictionary and is there.
IsTree(t) ==
    /\ t = [p \in DOMAIN t |-> t[p]]
    /\ DOMAIN t \subseteq Seq(STRING)
    /\ <<>> \in DOMAIN t
    /\ \A p \in DOMAIN t : \A i \in 0..(Len(p) - 1) :
          SubSeq(p, 1, i) \in DOMAIN t /\ t[SubSeq(p, 1, i)] = Folder

IsDict(t) == IsTree(t) /\ t[<<>>] = Folder

\* d[key] = v, for the dictionary and the key at the end of a path.
Put(t, path, v) ==
    [q \in {q \in DOMAIN t : ~Prefix(path, q)} \union {path \o s : s \in DOMAIN v} |->
        IF Prefix(path, q) THEN v[Suffix(path, q)] ELSE t[q]]

\* A fault the checks must find: the loop does not look at what is in the way.
OpenedIfMissing(t, path) ==
    LET opened[i \in 0..(Len(path) - 1)] ==
            IF i = 0 THEN t
            ELSE LET at == SubSeq(path, 1, i) IN
                 IF at \in DOMAIN opened[i - 1] THEN opened[i - 1]
                 ELSE Put(opened[i - 1], at, EmptyDict)
    IN  opened[Len(path) - 1]

\* The loop of _set_nested over all segments but the last: what is in the way and is
\* no dictionary is replaced by one.
Opened(t, path) ==
    LET opened[i \in 0..(Len(path) - 1)] ==
            IF i = 0 THEN t
            ELSE LET at == SubSeq(path, 1, i) IN
                 IF at \in DOMAIN opened[i - 1] /\ opened[i - 1][at] = Folder THEN opened[i - 1]
                 ELSE Put(opened[i - 1], at, EmptyDict)
    IN  opened[Len(path) - 1]

\* _set_nested
SetNested(t, path, v) == Put(Opened(t, path), path, v)

\* The settings of a tree with their paths; an empty dictionary counts as one.
Leaves(t) ==
    {<<p, t[p]>> : p \in {p \in DOMAIN t :
        t[p] = Folder => \A q \in DOMAIN t : Prefix(p, q) => q = p}}

=============================================================================
