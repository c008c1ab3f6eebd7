---------------------------- MODULE MCInlinePlay ----------------------------
(* Small instances of InlinePlay for TLC. *)
EXTENDS InlinePlay, TLC

CONSTANTS ann, bob, eve, leave, cancel, join, new, begin, mode, reset

Sent ==
  [c \in Commands |->
     CASE c = leave -> [verb |-> "sair", user |-> ann]
       [] c = cancel -> [verb |-> "cancelar", user |-> ann]
       [] c = join -> [verb |-> "entrar", user |-> eve]
       [] c = new -> [verb |-> "novo", user |-> bob]
       [] c = mode -> [verb |-> "modo", user |-> ann]
       [] c = begin -> [verb |-> "iniciar", user |-> ann]]

Alike == Permutations(Games)
=============================================================================
