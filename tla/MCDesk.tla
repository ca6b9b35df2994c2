-------------------------------- MODULE MCDesk --------------------------------
(* Every kind of local backend, called and closed by two goroutines, and    *)
(* the requests that may come to it first.  Widths are 8 and 4 bits.        *)
EXTENDS Desk

CropAt(x, y, w, h) ==
  [Blank EXCEPT !.op = "screenshot", !.crop = [is |-> "set", x |-> x, y |-> y, w |-> w, h |-> h]]

\* A JSON number that is an integer.
Px(n) == Num(2 * n)

Stretches ==
  {<<Unset, Unset>>, <<Px(0), Px(4)>>, <<Px(1), Px(2)>>, <<Px(3), Px(2)>>,
   <<Px(3), Px(-2)>>, <<Px(-1), Px(2)>>, <<Px(2), Px(127)>>, <<Px(1), Unset>>,
   <<Px(16), Px(2)>>, <<Px(0), Px(18)>>, <<Calc("/", Lit(5), Lit(4)), Num(3)>>}

Crops ==
  {CropAt(h[1], v[1], h[2], v[2]) :
     h \in Stretches,
     v \in {<<Unset, Unset>>, <<Px(0), Px(3)>>, <<Px(1), Px(1)>>, <<Px(2), Px(-1)>>}}
  \cup {CropAt(Px(0), Px(0), n, Px(1)) : n \in {Null, Text, Px(0), Calc("/", Lit(1), Lit(0)), Num(256)}}
  \cup {[Blank EXCEPT !.op = "screenshot", !.crop = crop] : crop \in {NoCrop, NullCrop}}

At(x, y) == [Blank EXCEPT !.x = x, !.y = y]

Places ==
  {At(Num(0), Num(0)), At(Num(6), Num(4)), At(Num(7), Num(5)), At(Num(-1), Num(0)),
   At(Num(8), Num(0)), At(Unset, Num(2)), At(Num(2), Null), At(Num(255), Num(0)),
   At(Calc("*", Half(3), Lit(2)), Calc("-", Lit(3), Half(1))), At(Num(2), Text)}

Pointing ==
  {[p EXCEPT !.op = "move"] : p \in Places}
  \cup {[At(Num(2), Num(2)) EXCEPT !.op = op, !.text = t] :
          op \in {"click", "double_click"}, t \in {Missing, "", "left", "x"}}
  \cup {[Blank EXCEPT !.op = "click", !.text = "left"]}
  \cup {[At(Num(2), Num(2)) EXCEPT !.op = "scroll", !.scrollX = by[1], !.scrollY = by[2]] :
          by \in {<<Unset, Unset>>, <<Px(0), Px(1)>>, <<Px(-128), Unset>>, <<Px(-3), Px(5)>>,
                  <<Num(1), Null>>, <<Px(16), Text>>, <<Unset, Px(16)>>}}

Drags ==
  {[Blank EXCEPT !.op = "drag", !.hasPath = TRUE, !.path = path] :
     path \in {<<>>, <<At(Num(0), Num(0))>>, <<At(Num(0), Num(0)), At(Num(4), Num(3))>>,
               <<At(Num(0), Num(0)), At(Unset, Num(3))>>,
               <<At(Num(0), Num(0)), At(Num(2), Text), At(Num(4), Num(3))>>}}
  \cup {[Blank EXCEPT !.op = "drag"]}

Keyboard == {[Blank EXCEPT !.op = op, !.text = t] : op \in KeyOps, t \in {Missing, "", "enter", "x"}}

Others ==
  {Blank, [Blank EXCEPT !.extra = TRUE]} \cup {[Blank EXCEPT !.op = "wait", !.ms = ms] : ms \in {-1, 5}}
  \cup {[At(Num(0), Num(0)) EXCEPT !.op = "move", !.extra = TRUE]}

Documents == Crops \cup Pointing \cup Drags \cup Keyboard \cup Others

Account(tokens, bearer) == [tokens |-> tokens, bearer |-> bearer]

Accounts ==
  {Account(<<>>, NoBearer),
   Account(<<Token("a", <<>>, <<<<"read", "*">>>>)>>, "a"),
   Account(<<Token("a", <<>>, <<ScopeAll>>)>>, NoBearer),
   Account(<<Token("a", <<"http">>, <<<<"write", "mouse">>>>), Token("a", <<"mcp">>, <<ScopeAll>>)>>, "a"),
   Account(<<Token("a", <<"mcp">>, <<<<"write", "keyboard">>>>),
             Token("b", <<"http">>, <<<<"read", "screenshot">>>>)>>, "b"),
   Account(<<Token("a", <<"http", "mcp">>, <<<<"read", "status">>, <<"write", "*">>>>)>>, "a")}

Request(front, account, document) ==
  [front |-> front, account |-> account, document |-> document]

\* Every document without tokens through every front, and with every
\* account one document of each operation.
MCRequests ==
  {Request(front, Account(<<>>, NoBearer), d) : front \in {"http", "mcp", "stdio", "fuse"}, d \in Documents}
  \cup {Request(front, account, d) :
          front \in {"http", "mcp"}, account \in Accounts,
          d \in {Blank, [Blank EXCEPT !.op = "wait"], [Blank EXCEPT !.op = "screenshot"],
                 [At(Num(2), Num(2)) EXCEPT !.op = "move"], [Blank EXCEPT !.op = "type", !.text = "x"],
                 [At(Num(2), Num(2)) EXCEPT !.op = "scroll", !.scrollY = Px(1)],
                 [At(Num(2), Num(2)) EXCEPT !.op = "double_click", !.text = "left"],
                 [Blank EXCEPT !.op = "keypress", !.text = "enter"],
                 [Blank EXCEPT !.op = "drag", !.hasPath = TRUE,
                               !.path = <<At(Num(0), Num(0)), At(Num(4), Num(3))>>]}}

\* What amd64 makes of it.
MCBeyond == -128

MCPicture == <<4, 3>>

MCLayouts ==
  {{}, {Region(0, 0, 4, 3)}, {Region(0, 0, 2, 2), Region(2, 1, 3, 3)}, {Region(-4, 0, 4, 3), Region(0, 0, 4, 3)},
   {Region(1, 1, 0, 3)}}
===============================================================================
