---------------------------- MODULE MCPcapReplay ----------------------------
(***************************************************************************)
(* One message of each type.  Locate 7 carries a directory and four        *)
(* numbered messages, the number 4 being lost before the capture; locate 8 *)
(* a system event and four, of which the third is for an order of the      *)
(* other stream.  Times and match numbers are as large as they can be.     *)
(***************************************************************************)
EXTENDS PcapReplay

Header(type, loc) ==
  [type |-> type, stock_locate |-> loc, tracking_number |-> 12 * 12 - 1, ts |-> 12 ^ 6 - 1]

Order(id, side, shares, sym, price) ==
  [order_id |-> id, side |-> side, shares |-> shares, symbol |-> sym, price |-> price]

Execution(id, shares) ==
  [order_id |-> id, executed_shares |-> shares, match_number |-> 12 ^ 8 - 1]

On(loc, seq, type, fields) == [loc |-> loc, seq |-> seq, msg |-> Header(type, loc) @@ fields]

MCSent ==
  << On(7, 0, "R", [symbol |-> 5, market_category |-> 3, financial_status |-> 4,
                    round_lot_size |-> 100]),
     On(7, 1, "A", Order(1, 2, 9, 5, 200)),
     On(7, 2, "C", Execution(1, 2) @@ [printable |-> 1, execution_price |-> 199]),
     On(7, 3, "U", [original_order_id |-> 1, new_order_id |-> 13, shares |-> 8, price |-> 300]),
     On(7, 5, "P", Order(0, 2, 1, 5, 200) @@ [match_number |-> 12 ^ 8 - 1]),
     On(8, 0, "S", [event_code |-> 6]),
     On(8, 1, "F", Order(2, 3, 7, 6, 250) @@ [attribution |-> 1234]),
     On(8, 2, "X", [order_id |-> 2, canceled_shares |-> 3]),
     On(8, 3, "E", Execution(13, 1)),
     On(8, 4, "D", [order_id |-> 2]) >>

\* as fast as possible, twice as fast and half as fast
Option(speedup, start_offset, stop_after, skip_gaps) ==
  [speedup |-> speedup, start_offset |-> start_offset, stop_after |-> stop_after,
   skip_gaps |-> skip_gaps]

MCOptions ==
  { Option(<<0, 1>>, 0, 3, TRUE),  Option(<<2, 1>>, 0, 0, FALSE),
    Option(<<1, 2>>, 4, 1, TRUE),  Option(<<2, 1>>, 3, 2, TRUE) }

\* the times of two records in a row differ by three microseconds, or by one the other way
MCTimeSteps == {3, -1}

ASSUME CapturesAreShort == ClockFits
=============================================================================
