------------------------ MODULE MCAuthorizationGate ------------------------
(* Small instances of AuthorizationGate for TLC.                           *)
EXTENDS AuthorizationGate, TLC

CONSTANTS r1, r2, r3, a1, a2, sharma, patel, kumar, reddy

(* Two senior controllers, one OC and one supervisor of KNOWN_CONTROLLERS. *)
MCRole == sharma :> "SENIOR_OC" @@ patel :> "SENIOR_OC"
          @@ kumar :> "OC" @@ reddy :> "SUPERVISOR"
MCController == {sharma, patel, kumar, reddy}

(* An advisory of a low tier waits longer (300, 600, 900 s in the code).    *)
MCTimeout == <<1, 2, 2>>
NoTimeout == <<1, 1, 1>>



(* Submissions are interchangeable.                                        *)
Symmetry == Permutations(Request)
=============================================================================
