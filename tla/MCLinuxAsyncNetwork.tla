------------------------ MODULE MCLinuxAsyncNetwork ------------------------
(* Instance: two packets, a packet with a payload behind a stray byte, and *)
(* a packet with a wrong checksum, after which the search for the next one *)
(* takes the checksum for a size and clears the buffer.                    *)
EXTENDS LinuxAsyncNetwork

MCStreams ==
  {<<Encode(<<>>), Encode(<<>>)>>,
   <<<<0>>, Encode(<<1>>)>>,
   <<<<StartCode, 0, 0, 7>>, <<0>>>>}
=============================================================================
