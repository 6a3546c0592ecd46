---------------------------- MODULE MCOrderPayment ----------------------------
(* One order: its payment is where the calls meet, and nothing relates two *)
(* orders but the stock, which module Inventory has.                       *)
EXTENDS OrderPayment, TLC

CONSTANTS o1, w1, w2, poller

Symmetry == Permutations({w1, w2})
=============================================================================
