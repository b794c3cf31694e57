------------------------------- MODULE MCProcess -------------------------------
(* Instances of Process for TLC.  A second has 2 nanoseconds of 4 parts,    *)
(* a kilobyte is 4 bytes, size_t and a page hold up to 64 and 4.            *)
EXTENDS Process

Opt(key, num, text) == [key |-> key, num |-> num, text |-> text, set |-> {}, fields |-> <<>>]
Num(key, num) == Opt(key, num, "")
Text(key, text) == Opt(key, 0, text)
Cores(set) == [key |-> "c", num |-> 0, text |-> "", set |-> set, fields |-> <<>>]
File(fields) == [key |-> "g", num |-> 0, text |-> "", set |-> {}, fields |-> fields]

Program(line, bench) == [line |-> line, bench |-> bench, root |-> TRUE, joins |-> FALSE]
Joining(program) == [program EXCEPT !.joins = TRUE]
Unprivileged(program) == [program EXCEPT !.root = FALSE]

Second == NSec * Fine

(* Times: of a period and a deadline, that round to a whole second or to    *)
(* nothing, negative, too long a deadline.                                  *)
Times == {
  <<Num("p", Second), Num("t", 1)>>,
  <<Num("p", 2 * Second), Num("d", Second), Num("t", 1)>>,
  <<Num("p", Second - 1), Num("t", 1)>>,
  <<Num("p", 2 * Second), Num("d", Second - 1), Num("t", 1)>>,
  <<Num("p", Second + Fine), Num("d", 1), Num("t", 1)>>,
  <<Num("p", -Second), Num("d", -Second), Num("t", 1)>>,
  <<Num("d", Second + 1), Num("p", Second), Num("t", 1)>>,
  <<Num("t", 2)>>}

(* Heaps: a limit, an address, a file, one after the other, without a       *)
(* limit, with one that size_t makes 0.                                     *)
Heaps == {
  <<Num("t", 2), Num("m", 5)>>, <<Opt("m", 1, "K"), Num("t", 1), Num("l", 2)>>,
  <<Opt("H", 8, "address"), Num("m", 8), Num("t", 2), Num("l", 2), Text("o", "x")>>,
  <<Opt("H", 8, "address"), Text("H", "file"), Num("m", 8), Num("t", 1), Num("l", 5)>>,
  <<Num("m", 8), Num("l", 5), Num("t", 1), Num("b", 1)>>, <<Num("m", 2), Num("t", 1)>>,
  <<Opt("H", 8, "address"), Num("m", 3), Num("t", 1)>>,
  <<Opt("H", 8, "address"), Num("m", 4), Num("t", 1), Num("l", 2)>>,
  <<Opt("H", 8, "address")>>, <<Opt("H", 8, "address"), Opt("m", 1, "G")>>,
  <<Num("m", 4), Text("H", "file"), Num("m", 0)>>,
  <<Opt("m", 4, "other")>>, <<Opt("m", 4, "junk")>>, <<Text("H", "range")>>}

(* Policies, cores, other options and configuration files.                  *)
Others == {
  <<Num("f", 0)>>, <<Num("f", 120), Num("t", 1)>>, <<Num("f", 5), Num("P", 5)>>,
  <<Num("D", 4)>>, <<Num("P", 5), Num("D", 4), Num("t", 1)>>, <<Num("P", 5), Num("T", 6)>>,
  <<Cores({1}), Num("t", 1), Text("o", "path")>>, <<Cores({9})>>,
  <<Num("t", -1)>>, <<Text("c", "junk")>>,
  <<Text("t", "range")>>, <<Text("d", "range")>>, <<Text("p", "huge")>>, <<Text("h", "")>>,
  <<Num("l", 6)>>, <<Text("z", "")>>, <<Text("g", "missing")>>,
  <<File(<<Text("s", "")>>)>>,
  <<File(<<Num("m", 4), Text("H", "file"), Num("t", 1)>>), Num("l", 1)>>}

(* A synchronised start, with and without a period; profiling.              *)
Synch == {<<Text("s", ""), Num("t", 1)>>,
          <<Text("s", ""), Num("p", 2 * Second), Num("d", Second), Num("t", 1), Text("o", "x")>>}

Profile == {<<Num("M", 1), Num("b", 1), Num("t", 1), Num("m", 9)>>,
            <<Num("M", 1), Num("b", 1), Num("t", 1), Num("B", 2)>>,
            <<Num("M", 1), Num("b", 1), Num("B", 0)>>,
            <<Num("M", 1), Num("b", 2), Num("C", 1), Num("p", 2 * Second), Num("d", Second),
              Num("t", 1)>>,
            <<Num("M", 1), Num("t", 1)>>, <<Num("b", 1), Num("t", 1)>>}

MCPrograms ==
  {Program(line, "single") : line \in Times \union Heaps \union Others \union Synch \union Profile}
    \union {Program(line, "threads") : line \in Synch \union
              {<<Num("t", 2), Num("l", 2)>>, <<Num("t", 1), Num("m", 8), Num("l", 2)>>,
               <<Num("t", 1), Num("m", 4)>>,
               <<Opt("H", 8, "address"), Num("m", 4)>>,
               <<Opt("H", 8, "address"), Num("m", 8), Num("t", 1)>>}}
    \union {Joining(Program(line, "single")) : line \in Synch}
    \union {Unprivileged(Program(<<Num("f", 5)>>, "single"))}

MCBlocks == {"args", "outputPath", "groupNames", "samples", "moreSamples", "data", "header",
             "threadInfo", "fname", "file", "job"}
MCSize == [b \in MCBlocks |-> CASE b \in {"data", "moreSamples"} -> 3
                                [] b \in {"job", "fname", "threadInfo"} -> 2
                                [] OTHER -> 1]

(* A program with arguments in a build with performance counters, no -M.    *)
MCNoProfile == {Program(<<Num("b", 1), Num("p", Second), Num("t", 1)>>, "single")}
=============================================================================
