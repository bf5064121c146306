------------------------ MODULE MCAdminReportDetail ------------------------
(***************************************************************************)
(* The instance of AdminReportDetail that TLC checks.                      *)
(***************************************************************************)
EXTENDS AdminReportDetail

=============================================================================
