--------------------------- MODULE MCFileTransfer ---------------------------
(***************************************************************************)
(* Files of up to four octets moved two at a time, over a longer file that *)
(* was there before: lengths below, at and between multiples of the chunk. *)
(***************************************************************************)
EXTENDS FileTransfer

World(app, n, known, local, remote, room) ==
  [app |-> app, source |-> [i \in 1 .. n |-> i], old |-> <<9, 9, 9, 9, 9, 9>>,
   known |-> known, local |-> local, remote |-> remote, room |-> room]

Programs == {"readfile", "writefile"}

SomeWorlds ==
  {World(app, n, TRUE, TRUE, TRUE, 2) : app \in Programs, n \in {0, 3, 4}}
    \cup {World(app, 3, FALSE, TRUE, TRUE, 2) : app \in Programs}
    \cup {World(app, 3, TRUE, FALSE, TRUE, 2) : app \in Programs}
    \cup {World(app, 3, TRUE, TRUE, FALSE, 2) : app \in Programs}
    \cup {World("writefile", n, TRUE, TRUE, TRUE, 0) : n \in {1, 3}}

Chunks == [pos : 0 .. 4, data : {<<>>} \cup {<<n>> : n \in 1 .. 4} \cup {<<n, n + 1>> : n \in 1 .. 3}]

ZeroOrOne == {0, 1}
=============================================================================
