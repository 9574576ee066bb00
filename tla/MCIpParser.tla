----------------------------- MODULE MCIpParser -----------------------------
(* Instances of IpParser for TLC.  The groups are chosen for their digits: *)
(* 16 reads 10 in decimal, 598 reads 256 and is no octet, 3512 is db8.     *)
EXTENDS IpParser

Octets == {<<0, 0, 0, 0>>, <<127, 0, 0, 1>>, <<10, 8, 0, 16>>, <<255, 255, 255, 250>>}

Groups ==
  {<<0, 0, 0, 0, 0, 0, 0, 0>>,
   <<0, 0, 0, 0, 0, 0, 0, 1>>,
   <<10756, 20034, 512, 0, 0, 0, 0, 513>>,
   <<8193, 3512, 0, 0, 3512, 16, 598, 0>>,
   <<8193, 3512, 598, 1, 2, 3, 3512, 0>>,
   <<65535, 0, 3512, 0, 10, 0, 0, 0>>}

ZoneLabels == <<<<Word>>, <<Word, Word>>>>

NoAddresses == {}

(* 2001:db8::1:2:3:4 *)
Everyday == {<<8193, 3512, 0, 0, 1, 2, 3, 4>>}
=============================================================================
