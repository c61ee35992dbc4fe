--------------------------- MODULE MCDrain3Miner ---------------------------
(* Lines of two and three tokens over two words and a number.              *)
EXTENDS Drain3Miner

MCLine ==
  {<<a, b>> : a, b \in Token} \cup
  {<<"a", b, c>> : b, c \in Token}
=============================================================================
