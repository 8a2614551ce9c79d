------------------------------- MODULE H5Walk -------------------------------
(***************************************************************************)
(* H5File_get_structure: a depth-first walk over the groups of an HDF5     *)
(* file, which builds the tree that H5File_open answers.                   *)
(*                                                                         *)
(* The groups of a file are a graph: a group may be linked from several    *)
(* others, and from one below itself.  An object is named by its address.  *)
(* The recursion of H5File_depth_first is a stack of frames; a path is the *)
(* sequence of the members' positions that lead to an object.              *)
(***************************************************************************)
EXTENDS Integers, Sequences

CONSTANTS
    Groups,      \* addresses of a file's groups
    RootGroup,
    Files,       \* the files the walk is given
    LongSizes,   \* bytes of an unsigned long in the builds; an int has 4
    Pointer,     \* what the address of a path's string is, as a number: not 0
    StackSize    \* frames the process's stack takes (bounds the recursion)

Kinds == {"H5G_GROUP", "H5G_DATASET", "other", "noInfo"}

ASSUME WalkAssumption ==
    /\ Groups \subseteq Nat \ {0}
    /\ RootGroup \in Groups
    /\ LongSizes \subseteq {4, 8}
    /\ Pointer \in Int \ {0}
    /\ StackSize \in Nat \ {0}
    /\ \A f \in Files :
        /\ f.members \in [Groups -> Seq([type : Kinds, objno : Groups])]
        /\ f.unreadable \subseteq Groups
        /\ f.uniterable \subseteq Groups

VARIABLES
    sizeofLong, \* of this build
    file,       \* members[g], the members of a group; groups that cannot be
                \* opened, and ones whose members cannot be listed
    stack,      \* the calls of H5File_depth_first
    tree,       \* paths of the groups and datasets in the tree
    status      \* "walking", "done", or "faulted"

vars == <<sizeofLong, file, stack, tree, status>>

\* objno is the group; objID is what the tree holds for it, 0 for the root.
Frame == [objno : Groups, objID : Groups \union {0}, fullpath : Seq(Nat),
          i : Nat]  \* the next member, 0 ahead of the loop

Call(g, id, path) == [objno |-> g, objID |-> id, fullpath |-> path, i |-> 0]

TypeOK ==
    /\ sizeofLong \in LongSizes
    /\ stack \in Seq(Frame) /\ Len(stack) <= StackSize
    /\ \A p \in tree : p \in Seq(Nat) /\ Len(p) <= StackSize
    /\ status \in {"walking", "done", "faulted"}
    /\ stack = <<>> <=> status = "done"

Init ==
    /\ sizeofLong \in LongSizes
    /\ file \in Files
    /\ stack = <<Call(RootGroup, 0, <<>>)>>
    /\ tree = {}
    /\ status = "walking"
-----------------------------------------------------------------------------
Top == stack[Len(stack)]
Members == file.members[Top.objno]
Member == Members[Top.i]
MemberPath == Append(Top.fullpath, Top.i)

\* The loop goes on with the next member.
Advance(stk) == [stk EXCEPT ![Len(stk)].i = @ + 1]

\* ids is the address of a group's objID, an int[2] that holds the object's
\* number and 0, read as an unsigned long[2]: with longs of eight bytes the
\* second one is the pointer to its path.
Ids(id) == <<id, IF sizeofLong = 4 THEN 0 ELSE Pointer>>

\* Mutant: only the caller is looked at.
HasLoopParent(id) == <<Top.objID, 0>> = Ids(id)

\* H5File_has_loop: a group among the callers has this object number.
HasLoop(id) == \E k \in DOMAIN stack : <<stack[k].objID, 0>> = Ids(id)
-----------------------------------------------------------------------------
\* The group is opened and its members are listed.
Begin ==
    /\ Top.i = 0
    /\ Top.objno \notin file.unreadable
    /\ Members # <<>> => Top.objno \notin file.uniterable
    /\ stack' = Advance(stack)
    /\ UNCHANGED <<sizeofLong, file, tree, status>>

\* Mutant: the first call's return does not end the walk.
ReturnUnfinished ==
    /\ stack' = SubSeq(stack, 1, Len(stack) - 1)
    /\ UNCHANGED <<sizeofLong, file, tree, status>>

Return ==
    /\ stack' = SubSeq(stack, 1, Len(stack) - 1)
    /\ status' = IF Len(stack) = 1 THEN "done" ELSE "walking"
    /\ UNCHANGED <<sizeofLong, file, tree>>

\* Mutant: the whole walk ends.
BeginErrorEnds ==
    /\ Top.i = 0
    /\ Top.objno \in file.unreadable \union file.uniterable
    /\ stack' = <<>>
    /\ status' = "done"
    /\ UNCHANGED <<sizeofLong, file, tree>>

\* It cannot be: the call returns an error, which its caller forgets with the
\* next group, and H5File_open does not look at.
BeginError ==
    /\ Top.i = 0
    /\ \/ Top.objno \in file.unreadable
       \/ Top.objno \in file.uniterable /\ Members # <<>>
    /\ Return

Fault == status' = "faulted" /\ UNCHANGED <<sizeofLong, file, stack, tree>>

\* mnames is not set when its elements are freed.
BeginFault ==
    /\ Top.i = 0
    /\ Top.objno \in file.uniterable \ file.unreadable
    /\ Members # <<>>
    /\ Fault

InLoop == Top.i \in 1 .. Len(Members)

\* A member that has no information has no name either: strlen(NULL).
MemberFault == InLoop /\ Member.type = "noInfo" /\ Fault

\* Mutant: the walk stays at the member.
MemberOtherStays ==
    /\ InLoop
    /\ Member.type = "other"
    /\ UNCHANGED vars

MemberOther ==
    /\ InLoop
    /\ Member.type = "other"
    /\ stack' = Advance(stack)
    /\ UNCHANGED <<sizeofLong, file, tree, status>>

MemberDataset ==
    /\ InLoop
    /\ Member.type = "H5G_DATASET"
    /\ tree' = tree \union {MemberPath}
    /\ stack' = Advance(stack)
    /\ UNCHANGED <<sizeofLong, file, status>>

MemberGroup ==
    /\ InLoop
    /\ Member.type = "H5G_GROUP"
    /\ ~HasLoop(Member.objno)
    /\ Len(stack) < StackSize
    /\ tree' = tree \union {MemberPath}
    /\ stack' = Append(Advance(stack), Call(Member.objno, Member.objno, MemberPath))
    /\ UNCHANGED <<sizeofLong, file, status>>

MemberLoop ==
    /\ InLoop
    /\ Member.type = "H5G_GROUP"
    /\ HasLoop(Member.objno)
    /\ tree' = tree \union {MemberPath}
    /\ stack' = Advance(stack)
    /\ UNCHANGED <<sizeofLong, file, status>>

\* The stack is used up.
StackFault ==
    /\ InLoop
    /\ Member.type = "H5G_GROUP"
    /\ ~HasLoop(Member.objno)
    /\ Len(stack) = StackSize
    /\ Fault

LoopEnd ==
    /\ Top.i > Len(Members)
    /\ Return

Step ==
    /\ status = "walking"
    /\ \/ Begin \/ BeginError \/ BeginFault
       \/ MemberFault \/ MemberOther \/ MemberDataset
       \/ MemberGroup \/ MemberLoop \/ StackFault
       \/ LoopEnd

Spec == Init /\ [][Step]_vars

\* The walk is one call and goes on to its end.
FairSpec == Spec /\ WF_vars(Step)
-----------------------------------------------------------------------------
(* Properties *)

Readable(g) ==
    g \notin file.unreadable /\ (file.members[g] # <<>> => g \notin file.uniterable)

\* The members of a group that are of one of the types.
MembersOf(g, types) ==
    {i \in DOMAIN file.members[g] : Readable(g) /\ file.members[g][i].type \in types}

\* What n links from the root lead to, by way of groups that can be read.
GroupPaths[n \in 0 .. StackSize] ==
    IF n = 0 THEN {[path |-> <<>>, objno |-> RootGroup]}
    ELSE UNION {{[path |-> Append(q.path, i), objno |-> file.members[q.objno][i].objno] :
                    i \in MembersOf(q.objno, {"H5G_GROUP"})} : q \in GroupPaths[n - 1]}

Acyclic == GroupPaths[StackSize] = {}

FilePaths ==
    UNION {{Append(q.path, i) : i \in MembersOf(q.objno, {"H5G_GROUP", "H5G_DATASET"})} :
              q \in UNION {GroupPaths[n] : n \in 0 .. StackSize - 1}}

\* The tree holds each group and dataset of the file, once for every path to it,
\* but for what is below a group that cannot be read: an error in one group
\* costs nothing elsewhere.
TreeIsFile == status = "done" /\ Acyclic => tree = FilePaths

\* The process ends only over a member without information, a group whose
\* members cannot be listed, or, with longs of eight bytes, a loop.
FaultHasCause ==
    status = "faulted" =>
        \/ \E g \in Groups : \E i \in DOMAIN file.members[g] : file.members[g][i].type = "noInfo"
        \/ file.uniterable # {}
        \/ sizeofLong = 8 /\ ~Acyclic

\* Every walk comes to its end, on files with loops too.
WalkEnds == <>(status # "walking")

\* "a loop can be detected by trace back to its parent group recursively"
\* (h5File.cpp:323-326): no group is entered below itself.
LoopsBroken == \A j, k \in DOMAIN stack : stack[j].objno = stack[k].objno => j = k
=============================================================================
