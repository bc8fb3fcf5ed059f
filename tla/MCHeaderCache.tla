--------------------------- MODULE MCHeaderCache ---------------------------
(***************************************************************************)
(* HeaderCache for TLC: two requests, one bot, two edits.  A tick is the   *)
(* limit of title_middleware.  An entry without title lives for one tick   *)
(* and one with a title for two, and two ticks stand for all longer lags,  *)
(* so that a resolution of the application can outlast either.             *)
(***************************************************************************)
EXTENDS HeaderCache

ShortTtl == 2
ShortNullTtl == 1
OneTick == 1

=============================================================================
