---------------------------- MODULE TrialUpdate ----------------------------
(***************************************************************************)
(* What the over-the-air update promises, without flash, slots or sequence *)
(* numbers (docs/ota.md, "Rollback, which is the part that matters"): an   *)
(* image arrives on trial, is given MaxTries attempts, and either proves   *)
(* itself or gives way to exactly the image that accepted it.              *)
(***************************************************************************)
EXTENDS Naturals

CONSTANTS Image, Cabled, Nothing, MaxTries   \* Nothing is not an image

VARIABLES
  image,     \* the image the next boot will run
  fallback,  \* what a trial falls back to; Nothing when no trial is on
  tries,     \* attempts charged to the trial
  heard      \* the images that have completed a publish round
vars == <<image, fallback, tries, heard>>

Init ==
  /\ image = Cabled
  /\ fallback = Nothing
  /\ tries = 0
  /\ heard = {}

Settled == fallback = Nothing

\* A round reaches the broker.
Publish ==
  /\ heard' = heard \cup {image}
  /\ UNCHANGED <<image, fallback, tries>>

\* Only an image that was heard, and is not itself on trial, hands over.
Update(new) ==
  /\ Settled /\ image \in heard /\ new # image
  /\ image' = new /\ fallback' = image /\ tries' = 0
  /\ UNCHANGED heard

Try ==
  /\ ~Settled /\ tries < MaxTries
  /\ tries' = tries + 1
  /\ UNCHANGED <<image, fallback, heard>>

Prove ==
  /\ ~Settled /\ image \in heard
  /\ fallback' = Nothing /\ tries' = 0
  /\ UNCHANGED <<image, heard>>

\* Giving up takes every one of the tries, no fewer.
Revert ==
  /\ ~Settled /\ tries = MaxTries
  /\ image' = fallback /\ fallback' = Nothing /\ tries' = 0
  /\ UNCHANGED heard

Next == Publish \/ (\E new \in Image : Update(new)) \/ Try \/ Prove \/ Revert

Spec == Init /\ [][Next]_vars
=============================================================================
