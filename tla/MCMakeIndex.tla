----------------------------- MODULE MCMakeIndex -----------------------------
(* Describe files for MakeIndex.  Directories are 11, 12, 13, 14; names are    *)
(* in another order than directories.                                          *)
EXTENDS MakeIndex

AllDirs == 11..15

Name == [d \in 11..15 |-> <<3, 1, 4, 2, 5>>[d - 10]]

\* Lists are in the order of directories, as make describe writes them.
InOrder(S) == SetToSortSeq(S, <)
UpTo(n, S) == {InOrder(T) : T \in {U \in SUBSET S : Cardinality(U) <= n}}

Line(dir, l, deps, rdeps) ==
    [e \in List \cup {"portdir", "pkgname"} |->
        CASE e = "portdir" -> dir
          [] e = "pkgname" -> Name[dir]
          [] e = l -> deps
          [] e = "rdep" -> rdeps
          [] OTHER -> <<>>]

Plain(dir, rdeps) == Line(dir, "rdep", rdeps, rdeps)

\* Three ports, any run dependencies, and a list of each kind.
ThreePorts ==
    {<<Line(12, l, deps, f[12]), Plain(13, f[13]), Plain(11, f[11])>> :
        l \in List \ {"rdep"}, deps \in UpTo(2, 11..13),
        f \in [11..13 -> UpTo(1, 11..13)]}
    \cup {<<Line(12, "bdep", <<13>>, f[12]), Plain(13, f[13]), Plain(11, f[11])>> :
        f \in [11..13 -> UpTo(3, 11..13)]}

\* Four ports, whose lists grow beyond twice their length.
FourPorts ==
    {<<Plain(13, f[13]), Plain(11, f[11]), Plain(14, f[14]), Plain(12, f[12])>> :
        f \in {g \in [11..14 -> UpTo(2, 11..14)] : Len(g[13]) <= 1 /\ Len(g[14]) <= 1}}

\* Every order of five lines, one of them perhaps a second one of 12.
Orders ==
    LET line == [d \in 11..15 |-> Plain(d, IF d = 11 THEN <<12, 15>> ELSE IF d = 12 THEN <<14>> ELSE <<>>)]
        again == [d \in 11..15 |-> IF d = 13 THEN Plain(12, <<15>>) ELSE line[d]]
    IN  {[k \in 1..5 |-> ls[o[k]]] : ls \in {line, again},
            o \in {f \in [1..5 -> 11..15] : IsInjective(f)}}

\* Names without a line, no lines at all, and a line that is not one.
Broken ==
    {<<>>, <<Plain(11, <<>>), Corrupt>>, <<Corrupt>>}
    \cup {<<Line(12, l, <<d>>, <<>>), Plain(14, <<>>)>> : l \in List \ {"rdep"}, d \in 11..15}

AllDescribes == ThreePorts \cup FourPorts \cup Orders \cup Broken
=============================================================================
