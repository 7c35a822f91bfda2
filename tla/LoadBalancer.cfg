CONSTANTS
  web = web
  api = api
  b1 = b1
  b2 = b2
  light = light
  heavy = heavy
  old = old
  new = new
  c1 = c1
  c2 = c2
  s1 = s1
  s2 = s2
  text = text
  addr = addr
  Null = null
  Keys = {web, api}
  HttpsKeys = {web, api}
  Targets = {b1, b2}
  Weights = {light, heavy}
  Certificates = {old, new}
  Credentials = {c1, c2}
  Settings = {s1, s2}
  Bodies = {text}
  Addresses = {addr}
  Configurations <- SomeConfigurations
  MaxOps = 3
  MaxExternal = 1
SPECIFICATION Spec
INVARIANTS TypeOK OkConverges NoPermaDiff ClashMeansMeddled
PROPERTIES KeptStay
