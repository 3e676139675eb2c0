-------------------------- MODULE MCChannelIngest --------------------------
(* ChannelIngest for TLC.                                                  *)
EXTENDS ChannelIngest

=============================================================================
