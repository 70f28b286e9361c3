------------------------- MODULE MCVerificationPage -------------------------
EXTENDS VerificationPage

\* Requests fail where deliveries do not overlap, and deliveries overlap where
\* no request fails.
OneTroubleAtATime == overlapped' => errors' = 0
==============================================================================
