------------------------------ MODULE MakeIndex ------------------------------
(* make_index.c: reads one describe line per port, sorts the ports, finds the *)
(* ports that the dependency lists name, closes the lists under run           *)
(* dependencies by a depth-first walk that extends the lists it is walking    *)
(* along, and prints the INDEX.  A port (PORT * ) is the number of its line;  *)
(* directories and package names are numbers in the order of portcompare and  *)
(* of strcmp.                                                                 *)
EXTENDS Integers, Sequences, SequencesExt

CONSTANTS
    Dir,        \* port directories
    Describes,  \* the describe files make_index is run on
    Corrupt     \* a line without its twelve separators or its newline

Lists == <<"edep", "pdep", "fdep", "bdep", "rdep">>
List == Range(Lists)

\* A line with its fields, what is only copied to the INDEX left out.
Described ==
    [portdir : Dir, pkgname : Nat, edep : Seq(Dir), pdep : Seq(Dir),
     fdep : Seq(Dir), bdep : Seq(Dir), rdep : Seq(Dir)]

ASSUME DescribesAssumption ==
    /\ Dir \subseteq Nat
    /\ Describes \subseteq Seq(Described \cup {Corrupt})

VARIABLES
    file,      \* the describe file
    pc,        \* the step of main
    i,         \* the loop counter of main
    pp,        \* the array of ports
    dep,       \* the lists: directories, from "recurse" on ports
    count,     \* n_edep, ...: while recurse_one is on a list, its allocated size
    recursed,
    stack,     \* the frames of recurse and recurse_one, innermost last
    out        \* the INDEX printed

vars == <<file, pc, i, pp, dep, count, recursed, stack, out>>
lists == <<dep, count, recursed, stack>>

Port == DOMAIN file
NoPort == 0
Garbage == -1   \* what an array holds that nothing was written to

Ends == {"ok", "corrupt", "no_entry", "loop"}

\* d is the list as extended so far, size its length before.
Frame ==
    [port : Port, list : 1..Len(Lists) + 1, i : Nat, size : Nat, d : Seq(Port)]

TypeOK ==
    /\ pc \in {"read", "sort", "translate", "recurse", "print"} \cup Ends
    /\ i \in Nat /\ (pc \notin {"read"} \cup Ends => i \in Port)
    /\ (pc \notin {"read", "corrupt"} => pp \in [Port -> Port])
    /\ dep \in [Port -> [List -> Seq(Dir \cup Port)]]
    /\ count \in [Port -> [List -> Nat]]
    /\ recursed \in [Port -> 0..2]
    /\ stack \in Seq(Frame) /\ Len(stack) <= Len(file)
    /\ Len(out) <= Len(file)

Init ==
    /\ file \in Describes
    /\ pc = "read"
    /\ i = 1
    /\ pp = <<>>
    /\ dep = [p \in Port |-> [l \in List |-> <<>>]]
    /\ count = [p \in Port |-> [l \in List |-> 0]]
    /\ recursed = [p \in Port |-> 0]
    /\ stack = <<>>
    /\ out = <<>>

-----------------------------------------------------------------------------
(* Heap sort and binary search.  Positions in arrays are one more than in C.  *)

Swap(s, a, b) == [s EXCEPT ![a] = s[b], ![b] = s[a]]

\* Mutant: the second child is looked at one place too late.
Largest_Late(s, size, pos, key) ==
    LET left == IF 2 * pos <= size /\ key[s[pos]] < key[s[2 * pos]]
                  THEN 2 * pos ELSE pos
    IN  IF 2 * pos + 1 < size /\ key[s[left]] < key[s[2 * pos + 1]]
          THEN 2 * pos + 1 ELSE left

\* The place of the largest key among pos and its children.
Largest(s, size, pos, key) ==
    LET left == IF 2 * pos <= size /\ key[s[pos]] < key[s[2 * pos]]
                  THEN 2 * pos ELSE pos
    IN  IF 2 * pos + 1 <= size /\ key[s[left]] < key[s[2 * pos + 1]]
          THEN 2 * pos + 1 ELSE left

\* heapifyports and heapifypkgs: the element at pos of the heap in the first
\* size places of s sinks, a level in each turn, to where it belongs by its key.
\* Once it is there nothing changes any more.
Sift(s, size, pos, key) ==
    LET step == [h \in [s : Seq(Nat), pos : Nat] |->
                   LET most == Largest(h.s, size, h.pos, key)
                   IN  [s |-> Swap(h.s, h.pos, most), pos |-> most]]
        top[n \in 0..size] ==
          IF n = 0 THEN [s |-> s, pos |-> pos] ELSE step[top[n - 1]]
    IN  top[size].s

Heap(s, key) ==
    LET built[k \in 0..Len(s)] ==
          IF k = 0 THEN s
          ELSE Sift(built[k - 1], Len(s), Len(s) - k + 1, key)
    IN  built[Len(s)]

HeapSort(s, key) ==
    LET sorted[k \in 0..Len(s) - 1] ==
          IF k = 0 THEN Heap(s, key)
          ELSE Sift(Swap(sorted[k - 1], 1, Len(s) - k + 1), Len(s) - k, 1, key)
    IN  IF s = <<>> THEN s ELSE sorted[Len(s) - 1]

DirOf == [p \in Port |-> file[p].portdir]
NameOf == [p \in Port |-> file[p].pkgname]

\* What is left of n places to look at: those from w[1] on, before w[2].
Windows(n) == {w \in (0..n) \X (0..n) : w[1] <= w[2]}

\* Mutant: the last port is not looked at.
Search_Last(a, dirs, dir) ==
    LET find[w \in Windows(Len(a))] ==
          LET mid == (w[1] + w[2]) \div 2
              p == a[mid + 1]
          IN  IF w[1] = w[2] THEN NoPort
              ELSE IF dirs[p] = dir THEN p
              ELSE IF dirs[p] < dir THEN find[<<mid + 1, w[2]>>]
              ELSE find[<<w[1], mid>>]
    IN  find[<<0, Len(a) - 1>>]

\* findport: st is w[1], and en w[2].
Search(a, dirs, dir) ==
    LET find[w \in Windows(Len(a))] ==
          LET mid == (w[1] + w[2]) \div 2
              p == a[mid + 1]
          IN  IF w[1] = w[2] THEN NoPort
              ELSE IF dirs[p] = dir THEN p
              ELSE IF dirs[p] < dir THEN find[<<mid + 1, w[2]>>]
              ELSE find[<<w[1], mid>>]
    IN  find[<<0, Len(a)>>]

FindPort(dir) == Search(pp, DirOf, dir)

-----------------------------------------------------------------------------
(* Steps 1 to 3 of main. *)

Read ==
    /\ pc = "read"
    /\ Corrupt \notin Range(file)
    /\ pp' = [k \in Port |-> k]
    /\ dep' = [p \in Port |-> [l \in List |-> file[p][l]]]
    /\ count' = [p \in Port |-> [l \in List |-> Len(file[p][l])]]
    /\ pc' = IF file = <<>> THEN "ok" ELSE "sort"
    /\ UNCHANGED <<file, i, recursed, stack, out>>

ReadFails ==
    /\ pc = "read"
    /\ Corrupt \in Range(file)
    /\ pc' = "corrupt"
    /\ UNCHANGED <<file, i, pp, lists, out>>

Sort ==
    /\ pc = "sort"
    /\ pp' = HeapSort(pp, DirOf)
    /\ pc' = "translate"
    /\ UNCHANGED <<file, i, lists, out>>

\* The loops of main over pp.
Turn(next) ==
    IF i < Len(pp) THEN i' = i + 1 /\ UNCHANGED pc ELSE i' = 1 /\ pc' = next

Named(p) == UNION {Range(dep[p][l]) : l \in List}

Translate ==
    /\ pc = "translate"
    /\ \A dir \in Named(pp[i]) : FindPort(dir) # NoPort
    /\ dep' = [dep EXCEPT ![pp[i]] =
                 [l \in List |-> [k \in DOMAIN @[l] |-> FindPort(@[l][k])]]]
    /\ Turn("recurse")
    /\ UNCHANGED <<file, pp, count, recursed, stack, out>>

TranslateFails ==
    /\ pc = "translate"
    /\ \E dir \in Named(pp[i]) : FindPort(dir) = NoPort
    /\ pc' = "no_entry"
    /\ UNCHANGED <<file, i, pp, lists, out>>

-----------------------------------------------------------------------------
(* Step 4: recurse on every port. *)

Top == stack[Len(stack)]

\* The frame of recurse_one at the start of list l of p: there may be none.
Begin(p, l) ==
    IF l <= Len(Lists)
      THEN [port |-> p, list |-> l, i |-> 1, size |-> count[p][Lists[l]],
            d |-> dep[p][Lists[l]]]
      ELSE [port |-> p, list |-> l, i |-> 1, size |-> 0, d |-> <<>>]

\* recurse(p), for a p that has not been seen.
Enter(p) ==
    /\ recursed[p] = 0
    /\ recursed' = [recursed EXCEPT ![p] = 1]
    /\ stack' = Append(stack, Begin(p, 1))

RecursePort ==
    /\ pc = "recurse"
    /\ stack = <<>>
    /\ Enter(pp[i])
    /\ UNCHANGED <<file, pc, i, pp, dep, count, out>>

NextPort ==
    /\ pc = "recurse"
    /\ stack = <<>>
    /\ recursed[pp[i]] = 2
    /\ Turn("print")
    /\ UNCHANGED <<file, pp, lists, out>>

\* The innermost recurse_one has an element of its list left, q.
At(q) ==
    /\ pc = "recurse"
    /\ stack # <<>>
    /\ Top.i <= Top.size
    /\ q = Top.d[Top.i]

Descend(q) ==
    /\ At(q)
    /\ Enter(q)
    /\ UNCHANGED <<file, pc, i, pp, dep, count, out>>

Circular(q) ==
    /\ At(q)
    /\ recursed[q] = 1
    /\ pc' = "loop"
    /\ UNCHANGED <<file, i, pp, lists, out>>

\* What d[i].p->rdep[0 .. n_rdep - 1] reads.
RunDepends(q) ==
    [j \in 1..count[q].rdep |->
        IF j <= Len(dep[q].rdep) THEN dep[q].rdep[j] ELSE Garbage]

\* Mutant: k is compared with the allocated size, and not N.
Add_Index(a, r) ==
    IF r \in Range(a.d)
      THEN a
      ELSE LET k == Len(a.d)
           IN  [d |-> Append(a.d, r), nd |-> IF k > a.nd THEN 2 * a.nd ELSE a.nd]

\* The loop over k, and the growth of the array.
Add(a, r) ==
    IF r \in Range(a.d)
      THEN a
      ELSE LET N == Len(a.d) + 1
           IN  [d |-> Append(a.d, r), nd |-> IF N >= a.nd THEN 2 * a.nd ELSE a.nd]

\* The loop over j.
AddAll(a, run) ==
    LET grown[j \in 0..Len(run)] == IF j = 0 THEN a ELSE Add(grown[j - 1], run[j])
    IN  grown[Len(run)]

\* ... once q has been recursed.
Extend(q) ==
    /\ At(q)
    /\ recursed[q] = 2
    /\ LET l == Lists[Top.list]
           grown == AddAll([d |-> Top.d, nd |-> count[Top.port][l]], RunDepends(q))
       IN  /\ stack' = [stack EXCEPT ![Len(stack)].d = grown.d,
                                     ![Len(stack)].i = @ + 1]
           /\ count' = [count EXCEPT ![Top.port][l] = grown.nd]
    /\ UNCHANGED <<file, pc, i, pp, dep, recursed, out>>

\* recurse_one returns, and recurse goes on with the next list.
EndList ==
    /\ pc = "recurse"
    /\ stack # <<>>
    /\ Top.list <= Len(Lists)
    /\ Top.i > Top.size
    /\ dep' = [dep EXCEPT ![Top.port][Lists[Top.list]] = Top.d]
    /\ count' = [count EXCEPT ![Top.port][Lists[Top.list]] = Len(Top.d)]
    /\ stack' = [stack EXCEPT ![Len(stack)] = Begin(Top.port, Top.list + 1)]
    /\ UNCHANGED <<file, pc, i, pp, recursed, out>>

\* Mutant: a port that has been recursed is forgotten.
Return_Forgets ==
    /\ pc = "recurse"
    /\ stack # <<>>
    /\ Top.list > Len(Lists)
    /\ recursed' = [recursed EXCEPT ![Top.port] = 0]
    /\ stack' = Front(stack)
    /\ UNCHANGED <<file, pc, i, pp, dep, count, out>>

Return ==
    /\ pc = "recurse"
    /\ stack # <<>>
    /\ Top.list > Len(Lists)
    /\ recursed' = [recursed EXCEPT ![Top.port] = 2]
    /\ stack' = Front(stack)
    /\ UNCHANGED <<file, pc, i, pp, dep, count, out>>

-----------------------------------------------------------------------------
(* Step 5: print. *)

\* printport.
PrintPort ==
    /\ pc = "print"
    /\ LET sorted == [l \in List |-> HeapSort(dep[pp[i]][l], NameOf)]
       IN  /\ dep' = [dep EXCEPT ![pp[i]] = sorted]
           /\ out' = Append(out, [port |-> pp[i], lists |-> sorted])
    /\ Turn("ok")
    /\ UNCHANGED <<file, pp, count, recursed, stack>>

Exited == pc \in Ends /\ UNCHANGED vars

Step ==
    \/ Read \/ ReadFails \/ Sort \/ Translate \/ TranslateFails
    \/ RecursePort \/ NextPort
    \/ \E q \in Port : Descend(q) \/ Circular(q) \/ Extend(q)
    \/ EndList \/ Return
    \/ PrintPort

Next == Step \/ Exited

Spec == Init /\ [][Next]_vars /\ WF_vars(Step)

-----------------------------------------------------------------------------
(* Properties. *)

\* The lines that describe a directory, the directories and the ports that list
\* l of p names.
Of(dir) == {p \in Port : file[p].portdir = dir}
NamedBy(p, l) == Range(file[p][l])
Direct(p, l) == {FindPort(dir) : dir \in NamedBy(p, l)} \ {NoPort}

\* S and all ports reached from it along edges, a step for each port.
Closure(S, edges) ==
    LET step[n \in 0..Len(edges)] ==
          IF n = 0 THEN S
          ELSE step[n - 1] \cup UNION {edges[q] : q \in step[n - 1]}
    IN  step[Len(edges)]

RunEdges == [q \in Port |-> Direct(q, "rdep")]
Edges == [q \in Port |-> UNION {Direct(q, l) : l \in List}]

\* A port that needs itself, in whatever way.
InLoop(p) == p \in Closure(Edges[p], Edges)

\* recurse_one writes no element past the end of the array it has allocated.
NoOverrun ==
    /\ TypeOK
    /\ \A k \in DOMAIN stack :
        stack[k].list <= Len(Lists)
          => Len(stack[k].d) <= count[stack[k].port][Lists[stack[k].list]]

\* make_index ends as it should: "Circular dependency loop found" exactly if
\* there is one, "no entry for" exactly if a name has none.
RightEnd ==
    pc \in Ends \ {"corrupt"} =>
      LET missing == \E p \in Port, l \in List : \E dir \in NamedBy(p, l) : Of(dir) = {}
          loop == \E p \in Port : InLoop(p)
      IN  pc = IF missing THEN "no_entry" ELSE IF loop THEN "loop" ELSE "ok"

\* The INDEX has a line for every described port, in the order of the
\* directories; its lists hold what the described ones reach along run
\* dependencies, none twice that was not described twice, in the order of the
\* names ("in alphabetical order").
RightIndex ==
    pc = "ok" =>
      /\ Len(out) = Len(file)
      /\ {out[k].port : k \in DOMAIN out} = Port
      /\ \A k \in 2..Len(out) : DirOf[out[k - 1].port] <= DirOf[out[k].port]
      /\ \A k \in DOMAIN out, l \in List :
            LET p == out[k].port
                s == out[k].lists[l]
            IN  /\ Range(s) = Closure(Direct(p, l), RunEdges)
                /\ IsInjective(file[p][l]) => IsInjective(s)
                /\ \A m \in 2..Len(s) : NameOf[s[m - 1]] <= NameOf[s[m]]

\* make_index ends, whatever the ports depend on.
Terminates == <>(pc \in Ends)
=============================================================================
