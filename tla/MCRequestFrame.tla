-------------------------- MODULE MCRequestFrame --------------------------
EXTENDS RequestFrame

\* A codec writing a bool or an int; an expiry policy payload.
MCFieldSizes == {1, 4}

MCExpirySizes == {24}

\* Two values randint may draw, one of them negative.
MCRandomIds == {-3, 9}

=============================================================================
