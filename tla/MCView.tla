------------------------------- MODULE MCView -------------------------------
(* Small instances of View.                                                *)
EXTENDS View

Text(text, marker, inverse) == [text |-> text, marker |-> marker, inverse |-> inverse]

Options == {Text("1. label", FALSE, FALSE), Text("10. label", TRUE, FALSE),
            Text("[a] label", FALSE, TRUE), Text("10. label", FALSE, FALSE)}

Rows == Options \cup {Text("", FALSE, TRUE), Text("prose", TRUE, FALSE),
                      Text("Go on? (y/n)", FALSE, FALSE)}

(* For screens with two lists, or with a list above a question.            *)
FewRows == {Text("1. label", FALSE, FALSE), Text("10. label", TRUE, FALSE),
            Text("", FALSE, FALSE), Text("Go on? (y/n)", FALSE, FALSE)}

(* Every screen of up to three rows, and of five rows of fewer kinds.      *)
MCFirstScreens ==
  {[rows |-> rows, alternate |-> FALSE] :
     rows \in UNION {[1 .. n -> Rows] : n \in 0 .. 3} \cup [1 .. 5 -> FewRows]}

MCScreens ==
  {[rows |-> <<Text("prose", FALSE, FALSE)>>, alternate |-> FALSE],
   [rows |-> <<Text("1. label", FALSE, FALSE), Text("10. label", FALSE, TRUE)>>,
    alternate |-> FALSE],
   [rows |-> <<Text("prose", FALSE, FALSE), Text("Go on? (y/n)", FALSE, FALSE)>>,
    alternate |-> TRUE]}
=============================================================================
