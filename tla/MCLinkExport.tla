--------------------------- MODULE MCLinkExport ---------------------------
(* LinkExport with two launches of cloudflared: one and its replacement.   *)
EXTENDS LinkExport

CONSTANTS l1, l2, frp, none

MCLaunch == {l1, l2}
MCNone == none
MCLegacy == frp
=============================================================================
