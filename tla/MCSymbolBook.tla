---------------------------- MODULE MCSymbolBook ----------------------------
(***************************************************************************)
(* Instances of SymbolBook for TLC.                                        *)
(***************************************************************************)
EXTENDS SymbolBook

CONSTANTS
  L2Beats,    \* bound: heartbeats while L2 clients subscribe
  BboVenue    \* bound: live venues while Bbo clients subscribe

\* In one behaviour the clients all subscribe to the same one of the two
\* streams.  The streams meet in the book only: no handler, queue or client of
\* one reads what belongs to the other.
OneStream ==
  \/ (\A s \in BboSub : bboPc'[s] = "idle") /\ beats' <= L2Beats
  \/ (\A s \in L2Sub : l2Pc'[s] = "idle") /\ book'.live \subseteq BboVenue
=============================================================================
