---------------------------- MODULE MCGuestSession ----------------------------
(***************************************************************************)
(* One phone with several requests under way, through the visits of an     *)
(* evening; what other phones and staff do to the seat is OpenVisit and    *)
(* CloseVisit.                                                             *)
(***************************************************************************)
EXTENDS GuestSession
===============================================================================
