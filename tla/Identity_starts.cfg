\* Two processes started in one directory, again and again; node.key may be removed.
SPECIFICATION Spec
CONSTANTS
  p = p  q = q  app = app  k1 = k1  k2 = k2  k3 = k3  k4 = k4
  Processes = {p, q}
  Apps = {app}
  Keys = {k1, k2, k3, k4}
  Absent = Absent
  Cut = Cut
  None = None
SYMMETRY Symmetry
INVARIANTS TypeOK OneIdentity StartsAgain PublishedCertifiesItself
