--------------------------- MODULE MCBrowserLogin ---------------------------
(* All three backends, one login monitor, two adapters, two operations and one *)
(* fault.                                                                      *)
EXTENDS BrowserLogin
=============================================================================
