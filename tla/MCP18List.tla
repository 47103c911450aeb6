----------------------------- MODULE MCP18List -----------------------------
(***************************************************************************)
(* Replies for P18List: to every message, lists that end early, lists with *)
(* items too many, with an empty last item, and items of every width from  *)
(* empty to longer than the buffer, of 8 bytes here.                       *)
(***************************************************************************)
EXTENDS P18List

\* Items by their number: all 1 or all 2, two digits that tell the items apart,
\* every other item empty, and widths 0 to 8.
Item(pattern, k) ==
  CASE pattern = "ones"         -> <<1>>
    [] pattern = "twos"         -> <<2>>
    [] pattern = "two digits"   -> <<1 + (k \div 10), k % 10>>
    [] pattern = "some empty"   -> IF k % 2 = 0 THEN <<>> ELSE <<k % 10>>
    [] pattern = "widths"       -> [digit \in 1 .. (k * 2) % 9 |-> (k + digit) % 10]

Joined(items) == FoldLeft(LAMBDA text, item : text \o <<Comma>> \o item, Head(items), Tail(items))

Data(pattern, n) == IF n = 0 THEN <<>> ELSE Joined([k \in 1 .. n |-> Item(pattern, k)])

Most(message) == IF message \in SelectableValues THEN AmpsSize + 1 ELSE ExpectedItems(message) + 1

MCReplies ==
  UNION {{<<message, Data(pattern, n) \o tail>> :
            pattern \in {"ones", "twos", "two digits", "some empty", "widths"},
            n \in {0, 1, 2} \cup Most(message) - 2 .. Most(message),
            tail \in {<<>>, <<Comma>>}} : message \in ListMessages}
=============================================================================
