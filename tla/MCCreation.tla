----------------------------- MODULE MCCreation -----------------------------
(* Two nodes, a channel or more of every kind, and for every kind          *)
(* declarations that agree, that differ and that do not fit.               *)
EXTENDS Creation

Group(name, protocol, dir, addr, maxSize, signals) ==
  [name |-> name, protocol |-> protocol, dir |-> dir, addr |-> addr, route |-> "r",
   header |-> "h", maxSize |-> maxSize, fifoSize |-> 1, signals |-> signals, sockets |-> 1]
Bus(name, protocol, dir, addr, maxSize, fifoSize) ==
  [Group(name, protocol, dir, addr, maxSize, Empty) EXCEPT !.fifoSize = fifoSize]
At(offset, size) == [offset |-> offset, size |-> size]

MCChannels ==
  { Bus("S", "afdx", "in", "x1", 8, 1),
    Bus("T", "afdx", "in", "x1", 8, 1),
    Bus("U", "afdx", "in", "x1", 2, 1),
    [Bus("V", "afdx", "in", "x1", 8, 1) EXCEPT !.header = "h2"],
    Bus("Q", "afdx", "out", "x2", 8, 2),
    [Bus("W", "afdx", "out", "x2", 8, 2) EXCEPT !.sockets = 2],
    Bus("L", "a429", "in", "x3", 4, 1),
    Bus("C", "can", "out", "x4", 14, 1),
    Group("D", "discrete", "in", "x5", 4,
          [s |-> At(0, 1), t |-> At(3, 1), u |-> At(4, 1)]),
    Group("E", "discrete", "in", "x5", 8, [v |-> At(0, 1), w |-> At(6, 1)]),
    Group("A", "analogue", "out", "x6", 4, [a |-> At(0, 4), b |-> At(1, 4)]),
    Group("N", "nad", "in", "x7", 4, [n |-> At(2, 2), o |-> At(3, 2), p |-> At(0, 30)]) }

Decl(node, local, kind, name, dir, size) ==
  [node |-> node, local |-> local, kind |-> kind, name |-> name, dir |-> dir, size |-> size,
   depth |-> 1, id |-> 0, sdi |-> <<"0">>, cNotation |-> FALSE, encoding |-> "e"]
Label(local, kind, id, sdi, depth) ==
  [Decl("app", local, kind, "L", "in", 4) EXCEPT !.id = id, !.sdi = sdi, !.depth = depth]

MCDeclarations ==
  { Decl("vc", "x", "afdx_sampling", "S", "in", 8),
    Decl("app", "x", "afdx_sampling", "T", "in", 8),
    Decl("app", "y", "afdx_sampling", "U", "in", 4),
    Decl("app", "x", "afdx_sampling", "V", "in", 8),
    [Decl("vc", "q", "afdx_queuing", "Q", "out", 4) EXCEPT !.depth = 2],
    [Decl("app", "r", "afdx_queuing", "Q", "out", 8) EXCEPT !.depth = 2],
    Decl("app", "r", "afdx_queuing", "W", "out", 8),
    Label("l1", "a429_sampling", 1, <<"0", "1">>, 1),
    Label("l2", "a429_queuing", 1, <<"0", "1">>, 2),
    Label("l3", "a429_queuing", 1, <<"X", "X">>, 2),
    Label("l4", "a429_queuing", 1, <<"-", "-">>, 2),
    [Label("l5", "a429_sampling", 2, <<"1">>, 1) EXCEPT !.cNotation = TRUE],
    [Decl("app", "c1", "can", "C", "out", 8) EXCEPT !.id = 1],
    [Decl("app", "c2", "can", "C", "out", 4) EXCEPT !.id = 1],
    [Decl("app", "c3", "can", "C", "out", 8) EXCEPT !.id = 2],
    [Decl("app", "c4", "can", "C", "out", 8) EXCEPT !.id = 3],
    Decl("vc", "s", "discrete", "s", "in", 1),
    [Decl("app", "s2", "discrete", "s", "in", 1) EXCEPT !.encoding = "f"],
    Decl("app", "s3", "discrete", "v", "in", 1),
    Decl("app", "t", "discrete", "t", "in", 1),
    Decl("app", "u", "discrete", "u", "in", 1),
    Decl("app", "w", "discrete", "w", "in", 1),
    Decl("app", "a", "analogue", "a", "out", 4),
    Decl("app", "b", "analogue", "b", "out", 4),
    Decl("app", "n", "nad", "n", "in", 2),
    Decl("app", "o", "nad", "o", "in", 2),
    Decl("app", "p", "nad", "p", "in", 30) }

MCNodes == <<"vc", "app">>
Value(protocol, local, digits) ==
  [protocol |-> protocol, local |-> local, digits |-> digits]
MCInitFile ==
  << Value("afdx", "x", 2), Value("afdx", "x", 11), Value("afdx", "y", 7),
     Value("a429", "l1", 3), Value("can", "c2", 2),
     Value("discrete", "s", 1), Value("discrete", "s3", 1) >>
=============================================================================
