---------------------------- MODULE MCServerMain ----------------------------
(***************************************************************************)
(* Configuration documents for the server: good ones with one and with two *)
(* sessions, with two spellings of the same venue symbol, with overrides,  *)
(* and one of each kind that must be refused.                              *)
(***************************************************************************)
EXTENDS ServerMain

A_BC == << "A", "_", "B", "C" >>
AB_C == << "A", "B", "_", "C" >>
A_B_C == << "A", "_", "B", "_", "C" >>

Entry(symbol, type, venues) ==
  [complete |-> TRUE, symbol |-> symbol, type |-> type, venues |-> venues]

Good == Entry(A_BC, "SPOT", << "BINANCE", "OKX" >>)

OkxSpot(seconds) ==
  [venue_id |-> [exchange |-> "OKX", type |-> "SPOT"], seconds |-> seconds]
OkxPerp == [venue_id |-> [exchange |-> "OKX", type |-> "PERP"], seconds |-> 1]
Unknown == [venue_id |-> [exchange |-> "KRAKEN", type |-> "SPOT"],
            seconds |-> 1]

Document(books, idle, overrides, threads) ==
  [books |-> books, idle |-> idle, overrides |-> overrides,
   io_threads |-> threads]

Markets == << Entry(A_BC, "SPOT", << "BINANCE" >>),
              Entry(A_BC, "PERP", << "BINANCE" >>) >>
SameSpelling == << Good, Entry(AB_C, "SPOT", << "OKX", "BINANCE" >>) >>

BadBooks ==
  { << >>, << Good, Good >>, << [Good EXCEPT !.complete = FALSE] >>,
    << Entry(A_B_C, "SPOT", << "OKX" >>) >>,
    << Entry(A_BC, "SWAP", << "OKX" >>) >>,
    << Entry(A_BC, "SPOT", << >>) >>,
    << Good, Entry(A_BC, "PERP", << "KRAKEN" >>) >>,
    << Entry(AB_C, "PERP", << "OKX", "OKX" >>) >> }

BadRest ==
  { Document(<< Good >>, 0, << >>, Absent),
    Document(<< Good >>, kMaxIdleTimeout + 1, << >>, Absent),
    Document(<< Good >>, Absent, << OkxSpot(0) >>, Absent),
    Document(<< Good >>, Absent, << OkxSpot(1), OkxSpot(2) >>, Absent),
    Document(<< Good >>, Absent, << Unknown >>, Absent),
    Document(<< Good >>, Absent, << >>, 0),
    Document(<< Good >>, Absent, << >>, kMaxIoThreads + 1) }

\* OKX perpetuals are not among the books: refused after the wiring.
UnusedOverride == Document(<< Good >>, 1, << OkxPerp >>, Absent)

MCConfigs ==
  {Document(<< Good >>, Absent, << >>, 2),
   Document(Markets, Absent, << >>, Absent),
   Document(SameSpelling, 1, << OkxSpot(2) >>, Absent), UnusedOverride}
    \cup {Document(b, Absent, << >>, Absent) : b \in BadBooks}
    \cup BadRest
=============================================================================
