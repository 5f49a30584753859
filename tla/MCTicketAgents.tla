----------------------------- MODULE MCTicketAgents -----------------------------
EXTENDS TicketAgents

File(raw, stem, ext) == [raw |-> raw, stem |-> stem, ext |-> ext]

(* Two names of the table ORDERS, RAW_2024.csv, and one that is refused.   *)
MCNames == {File(TRUE, "ORDERS", ".csv"), File(FALSE, "ORDERS", ".json"),
            File(TRUE, "2024", ".csv"), File(FALSE, "ORDERS", ".txt")}

MCDigitStems == {"2024"}
=============================================================================
