---------------------------- MODULE MCReportModel ----------------------------
(* Instances of ReportModel: a test list with both kinds of case.          *)
EXTENDS ReportModel

MCCases == <<"FakeTestSuccessful", "FileTransfer">>
====
