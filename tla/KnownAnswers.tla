----------------------------- MODULE KnownAnswers -----------------------------
(* The values that the test benches of the repository expect, at 32 bits.    *)
EXTENDS Words, Sequences

\* HashCompTB.vhd:71-134, the schedule of "TeamGoFlex".
TeamGoFlex == <<
  Hex(\h5465, \h616d), Hex(\h476f, \h466c), Hex(\h6578, \h8000),
  Hex(\h0000, \h0000), Hex(\h0000, \h0000), Hex(\h0000, \h0000),
  Hex(\h0000, \h0000), Hex(\h0000, \h0000), Hex(\h0000, \h0000),
  Hex(\h0000, \h0000), Hex(\h0000, \h0000), Hex(\h0000, \h0000),
  Hex(\h0000, \h0000), Hex(\h0000, \h0000), Hex(\h0000, \h0000),
  Hex(\h0000, \h0050), Hex(\h565d, \h8907), Hex(\h73f7, \h3eca),
  Hex(\hdb2f, \h5687), Hex(\h78a0, \h8a4a), Hex(\h41a5, \hdd27),
  Hex(\h5472, \h5b66), Hex(\h5527, \h21e1), Hex(\hbd28, \h8528),
  Hex(\he8d1, \h08c9), Hex(\h2d4d, \h5997), Hex(\h1de8, \h877a),
  Hex(\h4997, \hfd80), Hex(\ha7c7, \h92ce), Hex(\h5689, \h69e7),
  Hex(\h9853, \hfc31), Hex(\he8d2, \hcc8d), Hex(\h5a8f, \h63d3),
  Hex(\h933f, \h86ba), Hex(\h3bc4, \h884a), Hex(\h8615, \h11a8),
  Hex(\hbe51, \h2d8c), Hex(\h17fe, \h2d59), Hex(\h58e7, \hb9fc),
  Hex(\hb7b4, \h38c2), Hex(\h257f, \h28d6), Hex(\hdabf, \h089e),
  Hex(\h0c37, \he52a), Hex(\hda58, \h1963), Hex(\h6bfe, \hf4d8),
  Hex(\h4e52, \he2ae), Hex(\haade, \h826c), Hex(\hb073, \h93dc),
  Hex(\h4d8f, \h0f1a), Hex(\h0c4e, \hd59f), Hex(\h823e, \h57f5),
  Hex(\he869, \h2319), Hex(\h294f, \h8b15), Hex(\h9684, \hb1ab),
  Hex(\hdbe6, \hf2c8), Hex(\h36d8, \hf2ae), Hex(\hbd9e, \hb755),
  Hex(\h70e0, \hdc80), Hex(\h5cb7, \h5c9c), Hex(\h7a11, \hec60),
  Hex(\h364b, \h98a1), Hex(\h6271, \hd3a5), Hex(\hec9a, \h5d64),
  Hex(\h40bd, \h38d1) >>

\* HashCompTB.vhd:151, its digest.
TeamGoFlexDigest ==
  [a |-> Hex(\h135c, \h6560), b |-> Hex(\h4322, \h75a7),
   c |-> Hex(\h0eed, \h672f), d |-> Hex(\ha5d4, \h8081),
   e |-> Hex(\h8a62, \hb4c2), f |-> Hex(\he57b, \hde90),
   g |-> Hex(\h437c, \he069), h |-> Hex(\ha92c, \h2d7f)]

\* tb_deComp.vhd:78-141, the schedule of "abcd".
abcd == <<
  Hex(\h6162, \h6364), Hex(\h8000, \h0000), Hex(\h0000, \h0000),
  Hex(\h0000, \h0000), Hex(\h0000, \h0000), Hex(\h0000, \h0000),
  Hex(\h0000, \h0000), Hex(\h0000, \h0000), Hex(\h0000, \h0000),
  Hex(\h0000, \h0000), Hex(\h0000, \h0000), Hex(\h0000, \h0000),
  Hex(\h0000, \h0000), Hex(\h0000, \h0000), Hex(\h0000, \h0000),
  Hex(\h0000, \h0020), Hex(\h7262, \h8364), Hex(\h8014, \h0000),
  Hex(\h11c2, \h2fdd), Hex(\h8020, \h5508), Hex(\h5211, \h5a52),
  Hex(\h2005, \h5801), Hex(\h8677, \he73c), Hex(\h796b, \h38b8),
  Hex(\h8f6c, \h4e0c), Hex(\h0d17, \h9933), Hex(\h2f04, \h6250),
  Hex(\h91cd, \hfd21), Hex(\hdd6f, \h2b7b), Hex(\hc788, \h70dc),
  Hex(\h2a59, \h078c), Hex(\h2c21, \hf147), Hex(\h33b9, \haac2),
  Hex(\ha985, \h640c), Hex(\h980c, \h48c2), Hex(\h74af, \hbea8),
  Hex(\h1739, \hd0f4), Hex(\h0307, \hb16e), Hex(\h36ec, \hcece),
  Hex(\hf72f, \h560f), Hex(\hb999, \h3801), Hex(\ha44a, \h3feb),
  Hex(\h8d34, \heed6), Hex(\h27f3, \h4e9a), Hex(\h8852, \he608),
  Hex(\h2a09, \h83e6), Hex(\h48fd, \h55f7), Hex(\hbfe1, \h4650),
  Hex(\h2dbb, \he909), Hex(\h4689, \h3ac9), Hex(\hfb85, \h2a6f),
  Hex(\h5623, \h1afc), Hex(\ha1c5, \hb260), Hex(\he33c, \hfe77),
  Hex(\h3aaa, \h947a), Hex(\h5ff9, \h7cf4), Hex(\h651a, \h9dff),
  Hex(\hb8cc, \h1c00), Hex(\he3c8, \h290d), Hex(\h1100, \h548b),
  Hex(\h271c, \h4e0f), Hex(\h3878, \h453f), Hex(\h3ede, \h4927),
  Hex(\h3ce0, \h8b0e) >>
===============================================================================
