SPECIFICATION Spec
CONSTANTS
  c1 = c1
  c2 = c2
  b1 = b1
  p1 = p1
  p2 = p2
  r1 = r1
  r2 = r2
  tv = tv
  hifi = hifi
  slug_tv = slug_tv
  slug_hifi = slug_hifi
  sku = sku
  ann = ann
  w1 = w1
  w2 = w2
  None = None
  Categories = {c1, c2}
  Brands = {b1}
  Products = {p1, p2}
  Reviews = {r1, r2}
  CategoryNames = {tv, hifi}
  BrandNames = {hifi}
  Slugs = {slug_tv, slug_hifi}
  SlugOf <- Slugified
  Skus = {sku}
  Users = {ann}
  Workers = {w1, w2}
SYMMETRY Symmetry
INVARIANTS
  TypeOK
  SlugsIdentify
  OneReviewEach
  PublicWasApproved
PROPERTY
  ProductsGoAlone
