----------------------------- MODULE MCI2cVreg -----------------------------
(***************************************************************************)
(* Requests that share chips: two tiles of one power monitor, a contact    *)
(* set to a legal and to an illegal value, a DAC value of more than 16     *)
(* bits, and direct writes, with and without a byte, to one of the two     *)
(* switches and to the monitor.                                            *)
(***************************************************************************)
EXTENDS I2cVreg

R(op, upper, lower, val) == [op |-> op, upper |-> upper, lower |-> lower, val |-> val]

MCRequests ==
  { R("write", "SET_MUXA", 0, 3), R("write", "SET_MUXA", 0, 12),
    R("write", "SET_VDDA", 2, 65537),
    R("read", "MON_VDDA", 2, 0), R("read", "MON_IDDD", 3, 0),
    R("write", "EXPERT", 1, 1), R("write", "EXPERT", 2, ADDR_MUX_N),
    R("write", "EXPERT", 2, ADDR_ADC_TILES + 1),
    R("write", "EXPERT", 3, MUX_A), R("write", "EXPERT", 3, 0),
    R("write", "EXPERT", 4, 1), R("write", "EXPERT", 4, 0),
    R("write", "DIRECT", 0, 7) }
=============================================================================
