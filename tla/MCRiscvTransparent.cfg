CONSTANTS
  ca = ca
  la = la
  Reg = {0, 1, 2}
  Ca = {ca}
  Plain = {la, zero}
  Decode <- MCDecode
  Zero = zero
SPECIFICATION Spec
INVARIANT Transparent
