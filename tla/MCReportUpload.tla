--------------------------- MODULE MCReportUpload ----------------------------
(* One upload, of two pieces or of a single one. *)
EXTENDS ReportUpload, TLC

CONSTANTS r1

MCTwoPieces == r1 :> 2
MCOnePiece == r1 :> 1
=============================================================================
