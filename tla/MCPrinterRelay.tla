--------------------------- MODULE MCPrinterRelay ---------------------------
(***************************************************************************)
(* PrinterRelay on small instances: "label" is a job of two chunks,        *)
(* "check" a station asking whether the printer is there, "stranger" a     *)
(* client outside ALLOWED_CLIENTS.                                         *)
(***************************************************************************)
EXTENDS PrinterRelay

MCSize == [c \in Client |-> CASE c = "label" -> 2 [] c = "check" -> 0 [] OTHER -> 0]
MCAllowed == Client \ {"stranger"}
=============================================================================
